---- MODULE Spec2Model ----
(***************************************************************************)
(* Model of server/solver_cpsat.py (solve_cp_sat): the weekly timetable    *)
(* constraint model, the CP-SAT call and the extraction of the schedule.   *)
(*                                                                         *)
(* One call of solve_cp_sat is one behaviour: the input is chosen in Init, *)
(* Build creates the decision variables (the key sets of the dictionaries  *)
(* y1, y2, y3 and x) and the skip notes, the solver steps search for an    *)
(* assignment of the start variables that satisfies every constraint the   *)
(* code adds to the model, and Extract walks the true x variables into the *)
(* schedule grid and the statistics.                                       *)
(*                                                                         *)
(* CP-SAT itself is a library: it is modelled by its contract.  A returned *)
(* assignment (OPTIMAL / FEASIBLE) satisfies every constraint added to the *)
(* model, INFEASIBLE is returned only when no assignment does, and UNKNOWN *)
(* may be returned whenever the time limit expires first.                  *)
(***************************************************************************)
EXTENDS Integers, Sequences, FiniteSets, TLC

VARIABLES inp, pc, y1, y2, y3, x, notes, sol, status, xval, schedule, placements,
          timedOut, mig, auth, store

\* the state of a call of solve_cp_sat
solveVars ==
    <<inp, pc, y1, y2, y3, x, notes, sol, status, xval, schedule, placements, timedOut>>

vars == <<inp, pc, y1, y2, y3, x, notes, sol, status, xval, schedule, placements,
          timedOut, mig, auth, store>>

(***************************************************************************)
(* Bounds of the model and constants of the program.                       *)
(***************************************************************************)
\* range(5): the days of the week
NumDays == 5
\* occ_count >= 6: a heavy day
HeavyHours == 6
\* the longest school day of the inputs
MaxHours == 4

Days == 0 .. (NumDays - 1)

(***************************************************************************)
(* Python values.  A preference or default arrives as JSON: absent/null, a *)
(* number (possibly fractional) or something int() rejects.  A number is   *)
(* kept as twice its value so that halves are representable.               *)
(***************************************************************************)
PyNone == [k |-> "none", twice |-> 0]
PyNum(n) == [k |-> "num", twice |-> 2 * n]
PyHalf(m) == [k |-> "num", twice |-> m]
PyStr == [k |-> "str", twice |-> 0]

\* an Optional[int] of the code
NoInt == [some |-> FALSE, v |-> 0]
SomeInt(n) == [some |-> TRUE, v |-> n]

\* int(v) inside try/except: truncation toward zero; None when int() raises
PyInt(raw) ==
    IF raw.k # "num" THEN NoInt
    ELSE IF raw.twice >= 0 THEN SomeInt(raw.twice \div 2)
    ELSE SomeInt(0 - ((0 - raw.twice) \div 2))

Max2(a, b) == IF a >= b THEN a ELSE b
Min2(a, b) == IF a <= b THEN a ELSE b
B(b) == IF b THEN 1 ELSE 0

(***************************************************************************)
(* The catalog.  Lists of the input keep a fixed order (Rank).             *)
(***************************************************************************)
TeacherIds == {"T1", "T2"}
ClassIds == {"A", "B"}
SubjectIds == {"S1", "S2"}
Rank == [T1 |-> 1, T2 |-> 2, A |-> 1, B |-> 2, Z |-> 3, S1 |-> 1, S2 |-> 2]

Teachers == DOMAIN inp.teachers
Classrooms == DOMAIN inp.classrooms
Subjects == DOMAIN inp.subjects

\* school_hours[level][d]
AllowedLen(c, d) ==
    IF inp.classrooms[c].level = "Ortaokul"
    THEN inp.hours.Ortaokul[d] ELSE inp.hours.Lise[d]

class_day_ok(c, d, h) == h < AllowedLen(c, d)

\* max(school_hours['Ortaokul'][d], school_hours['Lise'][d])
TeacherDayLen(d) == Max2(inp.hours.Ortaokul[d], inp.hours.Lise[d])

Avail(t, d, h) == <<d, h>> \in inp.teachers[t].availability

\* a value of pinnedTeacherByClassroom: absent (pinned_map.get gives None), a
\* teacher id as a string, or a list of ids as main.py declares the field
\* (Dict[str, List[str]]) and model_dump() delivers it
PinNone == [k |-> "none", ids |-> <<>>]
PinStr(t) == [k |-> "str", ids |-> <<t>>]
PinList(q) == [k |-> "list", ids |-> q]

\* bool(pinned)
pin_truthy(pin) ==
    \/ (pin.k = "str" /\ pin.ids[1] # "")
    \/ (pin.k = "list" /\ pin.ids # <<>>)

\* pinned in teacher_by_id raises TypeError (unhashable type: 'list')
pin_unhashable(c, s) ==
    LET pinned == inp.subjects[s].pinnedTeacherByClassroom[c]
    IN pin_truthy(pinned) /\ pinned.k = "list"

eligible_teachers(c, s) ==
    LET need_middle == inp.classrooms[c].level = "Ortaokul"
        need_high == inp.classrooms[c].level = "Lise"
        pinned == inp.subjects[s].pinnedTeacherByClassroom[c]
    IN IF pin_truthy(pinned) /\ pinned.k = "str" /\ pinned.ids[1] \in Teachers
       THEN {pinned.ids[1]}
       ELSE {t \in Teachers :
               /\ ~(need_middle /\ ~inp.teachers[t].canTeachMiddleSchool)
               /\ ~(need_high /\ ~inp.teachers[t].canTeachHighSchool)
               /\ ~(inp.teachers[t].branches # {}
                    /\ inp.subjects[s].name \notin inp.teachers[t].branches)}

\* the (classroom, subject) pairs the subject loop reaches past both continues
Resolved == {p \in Classrooms \X Subjects : p[1] \in inp.subjects[p[2]].assignedClassIds}

\* the call of eligible_teachers raises for some pair of the subject loop
BuildRaises == \E p \in Resolved : pin_unhashable(p[1], p[2])
Modelled == {p \in Resolved : eligible_teachers(p[1], p[2]) # {}}
Skipped == {p \in Resolved : eligible_teachers(p[1], p[2]) = {}}

(***************************************************************************)
(* Variable creation: the keys (cid, sid, tid, d, h) of y1, y2, y3 and x.  *)
(***************************************************************************)
\* the slots visited by: for tid in t_ids / for d in range(5) / for h in range(allowed_len)
LoopKeys ==
    UNION {{<<p[1], p[2], t, d, h>> : h \in 0 .. (AllowedLen(p[1], d) - 1)} :
            p \in Modelled, t \in TeacherIds, d \in Days}

InLoop(k) ==
    /\ k[3] \in eligible_teachers(k[1], k[2])
    /\ class_day_ok(k[1], k[4], k[5])

\* variant: a single start at every slot, the availability not looked at
Y1Create_anySlot(k) == InLoop(k)

Y1Create(k) == InLoop(k) /\ Avail(k[3], k[4], k[5])

\* variant: the second hour of the block is not checked
Y2Create_firstHour(k) ==
    /\ InLoop(k)
    /\ k[5] + 1 < AllowedLen(k[1], k[4])
    /\ Avail(k[3], k[4], k[5])

Y2Create(k) ==
    /\ InLoop(k)
    /\ k[5] + 1 < AllowedLen(k[1], k[4])
    /\ Avail(k[3], k[4], k[5])
    /\ Avail(k[3], k[4], k[5] + 1)

Y3Create(k) ==
    /\ InLoop(k)
    /\ k[5] + 2 < AllowedLen(k[1], k[4])
    /\ Avail(k[3], k[4], k[5])
    /\ Avail(k[3], k[4], k[5] + 1)
    /\ Avail(k[3], k[4], k[5] + 2)

\* x is created for every eligible teacher and every slot of the class day
XCreate(k) == k[3] \in eligible_teachers(k[1], k[2])

\* variant: the note names the subject by its id
SkipNote_bySubjectId(c, s) == <<"Atlandi: ", s, " / ", c, " (uygun ogretmen yok)">>

\* notes.append(f"Atlandi: {s['name']} / {cid} (uygun ogretmen yok)"), in the
\* order of the subject loop; the text is kept as its pieces
SkipNote(c, s) == <<"Atlandi: ", inp.subjects[s].name, " / ", c, " (uygun ogretmen yok)">>

RECURSIVE SkipNotes(_)
SkipNotes(pairs) ==
    IF pairs = {} THEN <<>>
    ELSE LET p == CHOOSE q \in pairs :
                    \A r \in pairs :
                        \/ Rank[q[2]] < Rank[r[2]]
                        \/ (q[2] = r[2] /\ Rank[q[1]] <= Rank[r[1]])
         IN <<SkipNote(p[1], p[2])>> \o SkipNotes(pairs \ {p})


(***************************************************************************)
(* Preferences and per-subject derived values.                             *)
(***************************************************************************)
\* bool(prefs.get('allowSameDaySplit', False))
allow_same_day_split == inp.prefs.allowSameDaySplit = "true"

\* try: int(raw) if raw is not None, kept when >= 0; except: None
max_teacher_gap_hours ==
    LET g == PyInt(inp.prefs.maxTeacherGapHours)
    IN IF g.some /\ g.v >= 0 THEN g ELSE NoInt

teacher_gap_weight ==
    LET g == PyInt(inp.prefs.teacherGapWeight)
    IN IF g.some THEN Max2(0, g.v) ELSE 0

\* variant: tdm > 0 instead of tdm >= 0
teacher_daily_max_positive ==
    LET g == PyInt(inp.prefs.teacherDailyMaxHours)
    IN IF g.some /\ g.v > 0 THEN g ELSE NoInt

teacher_daily_max ==
    LET g == PyInt(inp.prefs.teacherDailyMaxHours)
    IN IF g.some /\ g.v >= 0 THEN g ELSE NoInt

\* int(prefs.get('edgeWeight', 1)), int(prefs.get('nogapWeight', 3))
W_EDGE == IF inp.prefs.edgeWeight.k = "absent" THEN 1 ELSE PyInt(inp.prefs.edgeWeight).v
W_NOGAP == IF inp.prefs.nogapWeight.k = "absent" THEN 3 ELSE PyInt(inp.prefs.nogapWeight).v
W_GAP == teacher_gap_weight

\* int(prefs.get('edgeWeight', 1)), int(prefs.get('nogapWeight', 3)) outside any
\* try: None or a non-numeric string raises
WeightRaises ==
    \/ inp.prefs.edgeWeight.k \in {"none", "str"}
    \/ inp.prefs.nogapWeight.k \in {"none", "str"}

HasObjective == ~inp.stop_at_first /\ (W_EDGE > 0 \/ W_NOGAP > 0 \/ W_GAP > 0)

weeklyHours(s) == inp.subjects[s].weeklyHours
\* variant: the number of 2-hour blocks rounded up
block2_roundUp(s) == (Max2(0, inp.subjects[s].blockHours) + 1) \div 2

block2(s) == Max2(0, inp.subjects[s].blockHours) \div 2
block3(s) == Max2(0, inp.subjects[s].tripleBlockHours) \div 3

\* variant: min(wh, eff_max_consec) without the floor of 1
eff_max_consec_noFloor(s) ==
    LET raw == IF inp.subjects[s].maxConsec.k # "none"
               THEN inp.subjects[s].maxConsec ELSE inp.default_max_consec
        e == IF raw.k # "none" THEN PyInt(raw) ELSE NoInt
    IN IF e.some /\ weeklyHours(s) > 0
       THEN SomeInt(Min2(weeklyHours(s), e.v))
       ELSE e

\* subject override or global default, int(), then clamp to 1 .. weeklyHours
eff_max_consec(s) ==
    LET raw == IF inp.subjects[s].maxConsec.k # "none"
               THEN inp.subjects[s].maxConsec ELSE inp.default_max_consec
        e == IF raw.k # "none" THEN PyInt(raw) ELSE NoInt
    IN IF e.some /\ weeklyHours(s) > 0
       THEN SomeInt(Max2(1, Min2(weeklyHours(s), e.v)))
       ELSE e

(***************************************************************************)
(* The constraints.  Y is an assignment of the start variables: the sets   *)
(* of keys of y1, y2 and y3 that are true.  xv is the set of true x.       *)
(***************************************************************************)
EmptyY == [y1 |-> {}, y2 |-> {}, y3 |-> {}]

Shift(k, n) == <<k[1], k[2], k[3], k[4], k[5] - n>>

\* the value of sum(cover_terms) for the x variable with key k
Cover(Y, k) ==
    B(k \in Y.y1)
    + B(k \in Y.y2) + B(Shift(k, 1) \in Y.y2)
    + B(k \in Y.y3) + B(Shift(k, 1) \in Y.y3) + B(Shift(k, 2) \in Y.y3)

\* model.Add(var == sum(cover_terms)), var a BoolVar
LinkOk(Y) == \A k \in x : Cover(Y, k) <= 1

XVal(Y) == {k \in x : Cover(Y, k) = 1}

OfPair(S, c, s) == {k \in S : k[1] = c /\ k[2] = s}

Rel(exact, a, b) == IF exact THEN a = b ELSE a <= b

\* variant: the total only, without the block counts
WeeklyOk_noBlockCount(Y, exact) ==
    \A p \in Modelled :
        LET c == p[1]
            s == p[2]
            n1 == Cardinality(OfPair(Y.y1, c, s))
            n2 == Cardinality(OfPair(Y.y2, c, s))
            n3 == Cardinality(OfPair(Y.y3, c, s))
        IN (weeklyHours(s) > 0 /\ OfPair(y1 \cup y2 \cup y3, c, s) # {}) =>
              Rel(exact, n1 + 2 * n2 + 3 * n3, weeklyHours(s))

\* total hours coverage and exact block counts; with exact = FALSE the
\* relaxation every subset of a solution satisfies
WeeklyOk(Y, exact) ==
    \A p \in Modelled :
        LET c == p[1]
            s == p[2]
            n1 == Cardinality(OfPair(Y.y1, c, s))
            n2 == Cardinality(OfPair(Y.y2, c, s))
            n3 == Cardinality(OfPair(Y.y3, c, s))
        IN (weeklyHours(s) > 0 /\ OfPair(y1 \cup y2 \cup y3, c, s) # {}) =>
              /\ Rel(exact, n1 + 2 * n2 + 3 * n3, weeklyHours(s))
              /\ Rel(exact, n2, block2(s))
              /\ Rel(exact, n3, block3(s))

\* sliding window of eff_max_consec + 1 hours
MaxConsecOk(xv) ==
    \A p \in Modelled :
        LET c == p[1]
            s == p[2]
            e == eff_max_consec(s)
        IN (e.some /\ e.v > 0) =>
              \A d \in Days :
                  \A start \in 0 .. (Max2(0, AllowedLen(c, d) - (e.v + 1) + 1) - 1) :
                      Cardinality({k \in OfPair(xv, c, s) :
                                      k[4] = d /\ start <= k[5] /\ k[5] <= start + e.v})
                          <= e.v

\* s_occ[h] = OR_t x[(cid, sid, t, d, h)]
s_occ(xv, c, s, d, h) == \E k \in OfPair(xv, c, s) : k[4] = d /\ k[5] = h

\* variant: the pattern 1,0,1 is looked for from the second hour on
ContiguityOk_fromSecondHour(xv) ==
    allow_same_day_split \/
    \A p \in Modelled :
        \A d \in Days :
            \A h \in 2 .. (AllowedLen(p[1], d) - 2) :
                B(s_occ(xv, p[1], p[2], d, h - 1)) + B(s_occ(xv, p[1], p[2], d, h + 1))
                    - B(s_occ(xv, p[1], p[2], d, h)) <= 1

\* s_occ[h-1] + s_occ[h+1] - s_occ[h] <= 1
ContiguityOk(xv) ==
    allow_same_day_split \/
    \A p \in Modelled :
        \A d \in Days :
            \A h \in 1 .. (AllowedLen(p[1], d) - 2) :
                B(s_occ(xv, p[1], p[2], d, h - 1)) + B(s_occ(xv, p[1], p[2], d, h + 1))
                    - B(s_occ(xv, p[1], p[2], d, h)) <= 1

\* variant: the slot filtered by subject as well
ClassSlotOk_perSubject(xv) ==
    \A c \in Classrooms :
        \A s \in Subjects :
            \A d \in Days :
                \A h \in 0 .. (AllowedLen(c, d) - 1) :
                    Cardinality({k \in xv : k[1] = c /\ k[2] = s /\ k[4] = d /\ k[5] = h}) <= 1

\* one lesson per classroom per slot
ClassSlotOk(xv) ==
    \A c \in Classrooms :
        \A d \in Days :
            \A h \in 0 .. (AllowedLen(c, d) - 1) :
                Cardinality({k \in xv : k[1] = c /\ k[4] = d /\ k[5] = h}) <= 1

\* variant: the teacher's slot filtered by classroom as well
TeacherSlotOk_sameClass(xv) ==
    \A t \in Teachers :
        \A c \in Classrooms :
            \A d \in Days :
                \A h \in 0 .. (TeacherDayLen(d) - 1) :
                    Cardinality({k \in xv : k[1] = c /\ k[3] = t /\ k[4] = d /\ k[5] = h}) <= 1

\* variant: the hours of the middle school instead of the longer day
TeacherSlotOk_middleHours(xv) ==
    \A t \in Teachers :
        \A d \in Days :
            \A h \in 0 .. (inp.hours.Ortaokul[d] - 1) :
                Cardinality({k \in xv : k[3] = t /\ k[4] = d /\ k[5] = h}) <= 1

\* teacher no-overlap across classes per slot
TeacherSlotOk(xv) ==
    \A t \in Teachers :
        \A d \in Days :
            \A h \in 0 .. (TeacherDayLen(d) - 1) :
                Cardinality({k \in xv : k[3] = t /\ k[4] = d /\ k[5] = h}) <= 1

\* maximum daily lesson hours per teacher
DailyMaxOk(xv) ==
    teacher_daily_max.some =>
        \A t \in Teachers :
            \A d \in Days :
                Cardinality({k \in xv : k[3] = t /\ k[4] = d}) <= teacher_daily_max.v

\* the x variables of a fixed assignment
vars_fixed(fa) ==
    {k \in x : k[1] = fa.classroomId /\ k[2] = fa.subjectId
               /\ k[4] = fa.dayIndex /\ k[5] = fa.hourIndex}

FixedOk(xv) ==
    \A fa \in inp.fixedAssignments :
        vars_fixed(fa) # {} => Cardinality(vars_fixed(fa) \cap xv) = 1

\* o[(tid, d, h)]: OR of the x of the teacher at the slot
o(xv, t, d, h) == \E k \in xv : k[3] = t /\ k[4] = d /\ k[5] = h

\* g[(tid, d, h)]: the pattern 1,0,1 around h
gap(xv, t, d, h) == o(xv, t, d, h - 1) /\ ~o(xv, t, d, h) /\ o(xv, t, d, h + 1)

gap_candidates(d) == 1 .. (TeacherDayLen(d) - 2)

GapCount(xv, t, d) == Cardinality({h \in gap_candidates(d) : gap(xv, t, d, h)})

\* variant: the cap added only together with the objective
GapCapOk_withObjective(xv) ==
    (HasObjective /\ max_teacher_gap_hours.some) =>
        \A t \in Teachers :
            \A d \in Days :
                gap_candidates(d) # {} => GapCount(xv, t, d) <= max_teacher_gap_hours.v

GapCapOk(xv) ==
    max_teacher_gap_hours.some =>
        \A t \in Teachers :
            \A d \in Days :
                gap_candidates(d) # {} => GapCount(xv, t, d) <= max_teacher_gap_hours.v

occ_count(xv, t, d) == Cardinality({h \in 0 .. (TeacherDayLen(d) - 1) : o(xv, t, d, h)})
heavy(xv, t, d) == occ_count(xv, t, d) >= HeavyHours
gap_present(xv, t, d) == \E h \in gap_candidates(d) : gap(xv, t, d, h)
no_gap_heavy(xv, t, d) == heavy(xv, t, d) /\ ~gap_present(xv, t, d)

(***************************************************************************)
(* The auxiliary variables as the model states them: linear constraints on *)
(* 0/1 values.  ov gives a value to o[(t,d,h)] for the hours of the day,   *)
(* gv to the gap variable of every candidate hour.                         *)
(***************************************************************************)
Bit == {0, 1}

vars_t(t, d, h) == {k \in x : k[3] = t /\ k[4] = d /\ k[5] = h}

\* b >= v for every x of the slot and sum(vars_t) >= b; b == 0 without any x
o_linear(xv, t, d, h, b) ==
    IF vars_t(t, d, h) # {}
    THEN /\ \A k \in vars_t(t, d, h) : b >= B(k \in xv)
         /\ Cardinality(vars_t(t, d, h) \cap xv) >= b
    ELSE b = 0

\* variant: occ_count is at least 1
occ_count_linear_from1(ov, len, n) ==
    /\ n \in 1 .. len
    /\ n = Cardinality({h \in DOMAIN ov : ov[h] = 1})

\* occ_count = NewIntVar(0, allowed_len), occ_count == sum(occ_vars)
occ_count_linear(ov, len, n) ==
    /\ n \in 0 .. len
    /\ n = Cardinality({h \in DOMAIN ov : ov[h] = 1})

\* occ_count >= 6 if heavy, occ_count <= 5 if not
heavy_linear(n, hv) ==
    /\ hv = 1 => n >= HeavyHours
    /\ hv = 0 => n <= HeavyHours - 1

\* variant: the three upper bounds only
gap_linear_upperOnly(ov, h, g) ==
    /\ g <= ov[h - 1]
    /\ g <= 1 - ov[h]
    /\ g <= ov[h + 1]

\* g <= o[h-1], g <= 1 - o[h], g <= o[h+1], g >= o[h-1] + o[h+1] + (1 - o[h]) - 2
gap_linear(ov, h, g) ==
    /\ g <= ov[h - 1]
    /\ g <= 1 - ov[h]
    /\ g <= ov[h + 1]
    /\ g >= ov[h - 1] + ov[h + 1] + (1 - ov[h]) - 2

\* gap_present >= every candidate and sum(gap_candidates) >= gap_present;
\* gap_present == 0 without candidates
gap_present_linear(gv, gp) ==
    IF DOMAIN gv # {}
    THEN /\ \A h \in DOMAIN gv : gp >= gv[h]
         /\ Cardinality({h \in DOMAIN gv : gv[h] = 1}) >= gp
    ELSE gp = 0

\* no_gap_heavy <= heavy, <= 1 - gap_present, >= heavy - gap_present
no_gap_heavy_linear(hv, gp, ngh) ==
    /\ ngh <= hv
    /\ ngh <= 1 - gp
    /\ ngh >= hv - gp

\* sum(gap_candidates) <= max_teacher_gap_hours, when set and with candidates
gap_cap_linear(gv) ==
    (max_teacher_gap_hours.some /\ DOMAIN gv # {}) =>
        Cardinality({h \in DOMAIN gv : gv[h] = 1}) <= max_teacher_gap_hours.v

\* the values of o[(t,d,.)] that the constraints allow next to the
\* assignment xv of the x variables
OValues(xv, t, d) ==
    {ov \in [0 .. (TeacherDayLen(d) - 1) -> Bit] :
        \A h \in DOMAIN ov : o_linear(xv, t, d, h, ov[h])}

\* the values of the gap variables of day d that the constraints allow next to ov
GapValues(ov, d) ==
    {gv \in [gap_candidates(d) -> Bit] :
        \A h \in DOMAIN gv : gap_linear(ov, h, gv[h])}

\* some value of every auxiliary of teacher t on day d satisfies the
\* constraints next to xv
AuxExtends(xv, t, d) ==
    \E ov \in OValues(xv, t, d) :
        \E gv \in GapValues(ov, d) :
            /\ gap_cap_linear(gv)
            /\ \E n \in 0 .. (TeacherDayLen(d) + 1) :
                  /\ occ_count_linear(ov, TeacherDayLen(d), n)
                  /\ \E hv \in Bit : \E gp \in Bit : \E ngh \in Bit :
                        /\ heavy_linear(n, hv)
                        /\ gap_present_linear(gv, gp)
                        /\ no_gap_heavy_linear(hv, gp, ngh)

TeacherDays == Teachers \X Days

\* occ_count = NewIntVar(0, allowed_len, ...) for every teacher and day: with a
\* negative allowed_len the domain is empty and the solver rejects the model
ModelValid == Teachers = {} \/ \A d \in Days : TeacherDayLen(d) >= 0

\* edge_penalty: o at hour 0 and o at the last hour of every teacher day with hours
edge_penalty(xv) ==
    Cardinality({td \in TeacherDays :
                    TeacherDayLen(td[2]) > 0 /\ o(xv, td[1], td[2], 0)})
    + Cardinality({td \in TeacherDays :
                    TeacherDayLen(td[2]) > 0
                    /\ o(xv, td[1], td[2], TeacherDayLen(td[2]) - 1)})

\* gap_penalty: the gap variables of every teacher day
gap_penalty(xv) ==
    Cardinality(UNION {{<<td[1], td[2], h>> :
                          h \in {g \in gap_candidates(td[2]) : gap(xv, td[1], td[2], g)}} :
                       td \in TeacherDays})

\* variant: the objective without the edge term
Objective_noEdge(xv) ==
    W_NOGAP * Cardinality({td \in TeacherDays : no_gap_heavy(xv, td[1], td[2])})
    + W_GAP * gap_penalty(xv)

\* W_EDGE * sum(edge_penalty) + W_NOGAP * sum(nogap_penalty) + W_GAP * sum(gap_penalty)
Objective(xv) ==
    W_EDGE * edge_penalty(xv)
    + W_NOGAP * Cardinality({td \in TeacherDays : no_gap_heavy(xv, td[1], td[2])})
    + W_GAP * gap_penalty(xv)

\* every constraint of the model; final = FALSE keeps the constraints that
\* every subset of a solution satisfies (the search never needs to undo)
Hard(Y, final) ==
    /\ LinkOk(Y)
    /\ WeeklyOk(Y, final)
    /\ LET xv == XVal(Y)
       IN /\ ClassSlotOk(xv)
          /\ TeacherSlotOk(xv)
          /\ MaxConsecOk(xv)
          /\ DailyMaxOk(xv)
          /\ final => (ContiguityOk(xv) /\ FixedOk(xv) /\ GapCapOk(xv))


(***************************************************************************)
(* The solver.  A start is <<kind, key>> with kind 1, 2 or 3.              *)
(***************************************************************************)
AllStarts == ({1} \X y1) \cup ({2} \X y2) \cup ({3} \X y3)

AddStart(Y, st) ==
    CASE st[1] = 1 -> [Y EXCEPT !.y1 = @ \cup {st[2]}]
      [] st[1] = 2 -> [Y EXCEPT !.y2 = @ \cup {st[2]}]
      [] OTHER -> [Y EXCEPT !.y3 = @ \cup {st[2]}]

StartsOf(Y) == ({1} \X Y.y1) \cup ({2} \X Y.y2) \cup ({3} \X Y.y3)

\* the solutions of the model that extend Y by starts of rest
RECURSIVE Completions(_, _)
Completions(Y, rest) ==
    IF rest = {} THEN (IF Hard(Y, TRUE) THEN {Y} ELSE {})
    ELSE LET st == CHOOSE q \in rest : TRUE
             more == rest \ {st}
         IN Completions(Y, more)
            \cup (IF Hard(AddStart(Y, st), FALSE)
                  THEN Completions(AddStart(Y, st), more) ELSE {})

AllSolutions == Completions(EmptyY, AllStarts)

\* whether some solution of the model extends Y by starts of rest
RECURSIVE CanComplete(_, _)
CanComplete(Y, rest) ==
    \/ Hard(Y, TRUE)
    \/ /\ rest # {}
       /\ LET st == CHOOSE q \in rest : TRUE
              more == rest \ {st}
          IN \/ (Hard(AddStart(Y, st), FALSE) /\ CanComplete(AddStart(Y, st), more))
             \/ CanComplete(Y, more)

Feasible == CanComplete(EmptyY, AllStarts)

IsMinimal(Y) == \A Z \in AllSolutions : Objective(XVal(Y)) <= Objective(XVal(Z))

(***************************************************************************)
(* Extraction.                                                             *)
(***************************************************************************)
NoCell == [subjectId |-> "", teacherId |-> "", locationId |-> "", classroomId |-> ""]

Grid ==
    UNION {{<<c, d, h>> : h \in 0 .. (AllowedLen(c, d) - 1)} : c \in Classrooms, d \in Days}

EmptySchedule == [g \in Grid |-> NoCell]

\* variant: the cell without the location of the subject
assign_noLocation(k) ==
    [subjectId |-> k[2], teacherId |-> k[3], locationId |-> "", classroomId |-> k[1]]

assign(k) ==
    [subjectId |-> k[2], teacherId |-> k[3],
     locationId |-> inp.subjects[k[2]].locationId, classroomId |-> k[1]]

\* the insertion order of the dictionary x: subject, classroom, teacher, day, hour
KeyRank(k) == (((Rank[k[2]] * 4 + Rank[k[1]]) * 4 + Rank[k[3]]) * NumDays + k[4]) * 16 + k[5]

RECURSIVE ExtractLoop(_, _, _)
ExtractLoop(todo, sched, n) ==
    IF todo = {} THEN [schedule |-> sched, placements |-> n]
    ELSE LET k == CHOOSE q \in todo : \A r \in todo : KeyRank(q) <= KeyRank(r)
             cell == <<k[1], k[4], k[5]>>
         IN IF cell \in DOMAIN sched /\ sched[cell] = NoCell
            THEN ExtractLoop(todo \ {k}, [sched EXCEPT ![cell] = assign(k)], n + 1)
            ELSE ExtractLoop(todo \ {k}, sched, n)

Returned == status \in {"OPTIMAL", "FEASIBLE"}

\* variant: every result without a solution counts as timed out
timed_out_noSolution(st) == st \notin {"OPTIMAL", "FEASIBLE"}

\* 'timedOut': (status == cp_model.UNKNOWN)
timed_out(st) == st = "UNKNOWN"

\* f"status={status_map.get(status, str(status))}"
StatusNote(st) == <<"status=", st>>

(***************************************************************************)
(* Inputs.                                                                 *)
(***************************************************************************)
PyAbsent == [k |-> "absent", twice |-> 0]

Hours(a, b) == [d \in Days |-> IF d = 0 THEN a ELSE IF d = 1 THEN b ELSE 0]

FullAvail == Days \X (0 .. (MaxHours - 1))

Teacher(mid, high, br, av) ==
    [canTeachMiddleSchool |-> mid, canTeachHighSchool |-> high,
     branches |-> br, availability |-> av]

NoPin == [c \in ClassIds |-> PinNone]

Subject(nm, wh, bh, th, mc, cls, pin) ==
    [name |-> nm, weeklyHours |-> wh, blockHours |-> bh, tripleBlockHours |-> th,
     maxConsec |-> mc, locationId |-> "L1", assignedClassIds |-> cls,
     pinnedTeacherByClassroom |-> pin]

Prefs(split, gapmax, gapw, daily, ew, nw) ==
    [allowSameDaySplit |-> split, maxTeacherGapHours |-> gapmax,
     teacherGapWeight |-> gapw, teacherDailyMaxHours |-> daily,
     edgeWeight |-> ew, nogapWeight |-> nw]

NoPrefs == Prefs("absent", PyNone, PyNone, PyNone, PyAbsent, PyAbsent)

Input(ho, hl, ts, cs, ss, fx, pr, dmc, saf) ==
    [hours |-> [Ortaokul |-> ho, Lise |-> hl], teachers |-> ts, classrooms |-> cs,
     subjects |-> ss, fixedAssignments |-> fx, prefs |-> pr,
     default_max_consec |-> dmc, stop_at_first |-> saf]

Fixed(c, s, d, h) == [classroomId |-> c, subjectId |-> s, dayIndex |-> d, hourIndex |-> h]

OneClass(lv) == [c \in {"A"} |-> [level |-> lv]]
TwoClasses(la, lb) == [c \in {"A", "B"} |-> [level |-> IF c = "A" THEN la ELSE lb]]

\* one class, one teacher, one subject: hours, blocks, maxConsec, split, availability
BlockShapes ==
    {<<0, 0, 0>>, <<1, 0, 0>>, <<2, 0, 0>>, <<2, 2, 0>>, <<3, 0, 0>>, <<3, 0, 3>>,
     <<3, 2, 0>>, <<3, 3, 0>>, <<4, 4, 0>>, <<4, 0, 0>>, <<5, 0, 0>>, <<5, 2, 3>>,
     <<2, 1, 0>>, <<4, 0, 4>>}

AvailShapes == {FullAvail, {}, FullAvail \ {<<0, 1>>}}

FamBlocks ==
    {Input(Hours(MaxHours, 2), Hours(0, 0),
           [t \in {"T1"} |-> Teacher(TRUE, FALSE, {}, av)],
           OneClass("Ortaokul"),
           [s \in {"S1"} |-> Subject("Mat", sh[1], sh[2], sh[3], mc, {"A"}, NoPin)],
           {}, Prefs(split, PyNone, PyNone, PyNone, PyAbsent, PyAbsent), PyNone, TRUE) :
        av \in AvailShapes, sh \in BlockShapes,
        mc \in {PyNone, PyNum(-1), PyNum(0), PyNum(1), PyNum(2)},
        split \in {"absent", "true"}}

\* one class, one teacher, one subject: the teacher caps
RawCaps ==
    {PyNone, PyNum(-1), PyNum(0), PyNum(1), PyNum(2), PyHalf(3), PyHalf(-1), PyStr}

\* stop_at_first, or every weight 0: no objective
RunModes == {<<TRUE, PyAbsent>>, <<FALSE, PyNum(0)>>}

FamCaps ==
    {Input(Hours(MaxHours, 1), Hours(0, 0),
           [t \in {"T1"} |-> Teacher(TRUE, TRUE, {}, FullAvail)],
           OneClass("Ortaokul"),
           [s \in {"S1"} |-> Subject("Mat", wh, 0, 0, PyNone, {"A"}, NoPin)],
           {}, Prefs("true", cap[1], PyNone, cap[2], rm[2], rm[2]), PyNone, rm[1]) :
        wh \in {0, 2},
        cap \in (RawCaps \X {PyNone}) \cup ({PyNone, PyNum(0), PyNum(1)} \X RawCaps),
        rm \in RunModes}

\* the same with the objective: default weights, or a weight on the teacher gaps
FamObjective ==
    {Input(Hours(3, 1), Hours(0, 0),
           [t \in {"T1"} |-> Teacher(TRUE, TRUE, {}, FullAvail)],
           OneClass("Ortaokul"),
           [s \in {"S1"} |-> Subject("Mat", wh, 0, 0, PyNone, {"A"}, NoPin)],
           {}, Prefs("true", cap[1], gw, cap[2], PyAbsent, PyAbsent), PyNone, FALSE) :
        wh \in {0, 2},
        cap \in {<<PyNone, PyNone>>, <<PyNum(0), PyNone>>, <<PyNone, PyNum(1)>>},
        gw \in {PyNone, PyNum(2)}}

\* two classes that share the teachers, levels with different day lengths
FamTwoClasses ==
    {Input(Hours(2, 0), Hours(3, 0),
           [t \in ts |-> Teacher(TRUE, TRUE, {}, FullAvail)],
           TwoClasses(lv[1], lv[2]),
           [s \in {"S1"} |-> Subject("Mat", wh, 0, 0, PyNone, cls, NoPin)],
           {}, Prefs(split, gm, PyNone, dm, PyAbsent, PyAbsent), PyNone, TRUE) :
        ts \in {{"T1"}, {"T1", "T2"}}, cls \in {{"A", "B"}, {"A"}},
        dm \in {PyNone, PyNum(1)},
        lv \in {<<"Ortaokul", "Lise">>, <<"Lise", "Lise">>},
        wh \in {1, 2},
        split \in {"false", "true"},
        gm \in {PyNone, PyNum(0)}}

\* one class, two subjects, teachers by branch, fixed assignments
TeacherSets ==
    {[t \in {"T1", "T2"} |->
        Teacher(TRUE, FALSE, IF t = "T1" THEN {"Mat"} ELSE {"Fen"}, FullAvail)],
     [t \in {"T1"} |-> Teacher(TRUE, FALSE, {"Mat"}, FullAvail)],
     [t \in {"T1", "T2"} |-> Teacher(TRUE, FALSE, {}, FullAvail \ {<<0, 0>>})]}

FixedSets ==
    {{}, {Fixed("A", "S1", 0, 0)}, {Fixed("A", "S2", 0, 1)},
     {Fixed("A", "S1", 0, 0), Fixed("A", "S2", 0, 0)},
     {Fixed("B", "S1", 0, 0)}, {Fixed("A", "S1", 1, 3)}}

FamTwoSubjects ==
    {Input(Hours(2, 1), Hours(0, 0), ts, OneClass("Ortaokul"),
           [s \in {"S1", "S2"} |->
              IF s = "S1" THEN Subject("Mat", 2, 0, 0, PyNone, {"A"}, NoPin)
              ELSE Subject("Fen", wh2, 0, 0, PyNone, cls2, NoPin)],
           fx, NoPrefs, dmc, TRUE) :
        ts \in TeacherSets, wh2 \in {0, 1}, cls2 \in {{"A"}, {}, {"Z"}},
        fx \in FixedSets, dmc \in {PyNone, PyNum(1)}}

\* one class of any level, two teachers, the forms of a pinned teacher
PinShapes ==
    {PinNone, PinStr("T1"), PinStr("T2"), PinStr("T9"), PinStr(""),
     PinList(<<>>), PinList(<<"T1">>)}

FamPins ==
    {Input(Hours(2, 0), Hours(2, 0),
           [t \in {"T1", "T2"} |->
              IF t = "T1" THEN Teacher(TRUE, FALSE, {"Mat"}, FullAvail)
              ELSE Teacher(FALSE, TRUE, {}, av2)],
           OneClass(lv),
           [s \in {"S1"} |->
              Subject(nm, 1, 0, 0, PyNone, {"A"}, [c \in ClassIds |-> IF c = "A" THEN pin ELSE PinNone])],
           {}, NoPrefs, PyNone, TRUE) :
        lv \in {"Ortaokul", "Lise", "Ilkokul"}, nm \in {"Mat", "Fen"},
        pin \in PinShapes, av2 \in {FullAvail, {}}}

\* a day with a negative hour count
FamNegativeHours ==
    {Input(Hours(2, -1), hl,
           [t \in {"T1"} |-> Teacher(TRUE, FALSE, {}, FullAvail)],
           OneClass("Ortaokul"),
           [s \in {"S1"} |-> Subject("Mat", wh, 0, 0, PyNone, {"A"}, NoPin)],
           {}, NoPrefs, PyNone, TRUE) :
        hl \in {Hours(0, -1), Hours(0, 0)}, wh \in {0, 1, 2}}

Inputs ==
    FamBlocks \cup FamCaps \cup FamObjective \cup FamTwoClasses \cup FamTwoSubjects
    \cup FamPins \cup FamNegativeHours

(***************************************************************************)
(* The migration runner (server/run_migrations.py).  The files are named   *)
(* by their rank in sorted(MIGRATIONS_DIR.glob("*.sql")).  The connection  *)
(* is opened with autocommit=True: every execute is committed on its own.  *)
(***************************************************************************)
\* the most migration files of a directory
NumFiles == 2
\* the most runs a runner starts
MaxRuns == 2

Runners == {1, 2}
MigFiles == 1 .. NumFiles

RunnerOff == [pc |-> "off", idx |-> 0, runs |-> 0, exit |-> -1, applied |-> <<>>]

\* nfiles: the files found; failing: the files whose SQL raises; rows: the
\* filenames in app_migrations; executed: the committed executions of a file
MigState(url, n, failing) ==
    [url |-> url, nfiles |-> n, failing |-> failing, rows |-> {},
     executed |-> [f \in MigFiles |-> 0],
     run |-> [r \in Runners |-> RunnerOff]]

MigOff == MigState(FALSE, 0, {})


(***************************************************************************)
(* The login endpoints (server/auth.py) on the database backend.  Every    *)
(* _db_query and _db_execute opens its own connection and commits on its   *)
(* own, so a handler is a sequence of separate statements and the          *)
(* handlers of concurrent requests interleave between them.  One school S  *)
(* exists; a user is named by the email (users.email taken to be unique).  *)
(* A code or a token is named by the rank of its row in login_tokens:      *)
(* secrets gives every row a value no other row has.                       *)
(***************************************************************************)
\* the most requests the callers send
MaxRequests == 3

\* the handlers the server runs at the same time
Handlers == {1, 2}

\* m has no account; o is the owner of S; t is a teacher of S
Emails == {"m", "o", "t"}

\* the roles _require_school_membership and link_teacher accept
AdminLevel == {"admin", "owner", "manager", "super_admin"}

NoResp == [kind |-> "none", user |-> "", tok |-> 0, role |-> ""]

HandlerIdle ==
    [pc |-> "idle", email |-> "", school |-> 0, role |-> "", rec |-> 0, resp |-> NoResp]

AuthOff ==
    [users |-> [e \in Emails |-> ""], members |-> [e \in Emails |-> ""],
     tokens |-> <<>>, known |-> {}, started |-> 0,
     h |-> [i \in Handlers |-> HandlerIdle]]

\* the tables when the server starts: users.role, and school_users.role for S
AuthStart ==
    [AuthOff EXCEPT !.users = [e \in Emails |->
                                  IF e = "o" THEN "admin" ELSE IF e = "t" THEN "teacher" ELSE ""],
                    !.members = [e \in Emails |->
                                  IF e = "o" THEN "owner" ELSE IF e = "t" THEN "teacher" ELSE ""]]

(***************************************************************************)
(* The JSON file backend (server/storage.py).  file is the list            *)
(* login_tokens of storage.json; torn holds while write_text has truncated *)
(* the file and not yet written it.  A process is a request running one    *)
(* operation after the other.                                              *)
(***************************************************************************)
\* the most operations the requests run
MaxOps == 3

Procs == {1, 2}

ProcIdle == [pc |-> "idle", op |-> "", tok |-> 0, id |-> 0, obj |-> <<>>]

TokenRec(i, t, c) == [id |-> i, token |-> t, consumed |-> c]

StoreOff ==
    [file |-> <<>>, torn |-> FALSE, lock |-> 0, ops |-> 0, added |-> {}, marked |-> {},
     p |-> [q \in Procs |-> ProcIdle]]

\* a file holding one token, not consumed
StoreStart == [StoreOff EXCEPT !.file = <<TokenRec(1, 0, FALSE)>>]

(***************************************************************************)
(* The call.                                                               *)
(***************************************************************************)
Init ==
    /\ inp \in Inputs
    /\ pc = "build"
    /\ y1 = {} /\ y2 = {} /\ y3 = {} /\ x = {}
    /\ notes = <<>>
    /\ sol = EmptyY
    /\ status = ""
    /\ xval = {}
    /\ schedule = <<>>
    /\ placements = 0
    /\ timedOut = FALSE
    /\ mig = MigOff
    /\ auth = AuthOff
    /\ store = StoreOff

\* lines 85-129: the variables of the modelled pairs, and the skip notes
Build ==
    /\ pc = "build"
    /\ ~BuildRaises
    /\ ~WeightRaises
    /\ y1' = {k \in LoopKeys : Y1Create(k)}
    /\ y2' = {k \in LoopKeys : Y2Create(k)}
    /\ y3' = {k \in LoopKeys : Y3Create(k)}
    /\ x' = {k \in LoopKeys : XCreate(k)}
    /\ notes' = SkipNotes(Skipped)
    /\ pc' = "solve"
    /\ UNCHANGED <<auth, store, mig, timedOut, inp, sol, status, xval, schedule, placements>>

\* line 38: the exception leaves solve_cp_sat; nothing is returned
BuildRaise ==
    /\ pc = "build"
    /\ BuildRaises
    /\ pc' = "raised"
    /\ UNCHANGED <<auth, store, mig, timedOut, inp, y1, y2, y3, x, notes, sol, status, xval,
                   schedule, placements>>

\* lines 331-332: int() of a weight raises after the model is built and
\* before the solver is called; nothing is returned
WeightRaise ==
    /\ pc = "build"
    /\ ~BuildRaises
    /\ WeightRaises
    /\ pc' = "raised"
    /\ UNCHANGED <<auth, store, mig, timedOut, inp, y1, y2, y3, x, notes, sol, status, xval,
                   schedule, placements>>

\* the search sets one more start variable to true
SolverAssign ==
    /\ pc = "solve"
    /\ ModelValid
    /\ \E st \in AllStarts \ StartsOf(sol) :
          /\ Hard(AddStart(sol, st), FALSE)
          /\ sol' = AddStart(sol, st)
    /\ UNCHANGED <<auth, store, mig, timedOut, inp, pc, y1, y2, y3, x, notes, status, xval, schedule, placements>>

\* the assignment satisfies every constraint
SolverReturnSolution ==
    /\ pc = "solve"
    /\ ModelValid
    /\ Hard(sol, TRUE)
    /\ status' \in (IF ~HasObjective THEN {"OPTIMAL"}
                    ELSE IF IsMinimal(sol) THEN {"OPTIMAL", "FEASIBLE"}
                    ELSE {"FEASIBLE"})
    /\ xval' = XVal(sol)
    /\ pc' = "extract"
    /\ UNCHANGED <<auth, store, mig, timedOut, inp, y1, y2, y3, x, notes, sol, schedule, placements>>

\* no assignment satisfies the constraints
SolverReturnInfeasible ==
    /\ pc = "solve"
    /\ ModelValid
    /\ sol = EmptyY
    /\ ~Feasible
    /\ status' = "INFEASIBLE"
    /\ xval' = {}
    /\ pc' = "extract"
    /\ UNCHANGED <<auth, store, mig, timedOut, inp, y1, y2, y3, x, notes, sol, schedule, placements>>

\* the time limit expires before the search ends
SolverReturnUnknown ==
    /\ pc = "solve"
    /\ ModelValid
    /\ status' = "UNKNOWN"
    /\ sol' = EmptyY
    /\ xval' = {}
    /\ pc' = "extract"
    /\ UNCHANGED <<auth, store, mig, timedOut, inp, y1, y2, y3, x, notes, schedule, placements>>

\* the model does not pass the validation of the solver: nothing is searched
SolverReturnInvalid ==
    /\ pc = "solve"
    /\ ~ModelValid
    /\ status' = "MODEL_INVALID"
    /\ xval' = {}
    /\ pc' = "extract"
    /\ UNCHANGED <<auth, store, mig, timedOut, inp, y1, y2, y3, x, notes, sol, schedule, placements>>

\* lines 340-397: the grid, the placements and the final note
Extract ==
    /\ pc = "extract"
    /\ LET r == IF Returned THEN ExtractLoop(xval, EmptySchedule, 0)
                ELSE [schedule |-> EmptySchedule, placements |-> 0]
       IN /\ schedule' = r.schedule
          /\ placements' = r.placements
    /\ notes' = Append(notes, StatusNote(status))
    /\ timedOut' = timed_out(status)
    /\ pc' = "done"
    /\ UNCHANGED <<auth, store, mig, inp, y1, y2, y3, x, sol, status, xval>>

Next ==
    \/ Build
    \/ BuildRaise
    \/ SolverAssign
    \/ SolverReturnSolution
    \/ SolverReturnInfeasible
    \/ SolverReturnUnknown
    \/ SolverReturnInvalid
    \/ Extract

Spec == Init /\ [][Next]_vars

(***************************************************************************)
(* The scenario of two classes that need the same single teacher for six   *)
(* hours each in a grid of 5 days of 5 hours.  The search follows one      *)
(* branch: it sets the first start variable, in dictionary order, that     *)
(* keeps the constraints, and never undoes a choice.                       *)
(***************************************************************************)
Hours55 == [d \in Days |-> 5]

\* available all week; on 12 slots; on 6 slots
AvailShapes55 ==
    {Days \X (0 .. 4),
     ({0, 1} \X (0 .. 4)) \cup {<<2, 0>>, <<2, 1>>},
     ({0} \X (0 .. 4)) \cup {<<1, 0>>}}

Inputs55 ==
    {Input(Hours55, Hours55,
           [t \in {"T1"} |-> Teacher(TRUE, TRUE, {}, av)],
           TwoClasses(lv, lv),
           [s \in {"S1"} |-> Subject("Mat", 6, 0, 0, PyNone, {"A", "B"}, NoPin)],
           {}, Prefs(split, PyNone, PyNone, PyNone, PyAbsent, PyAbsent), PyNone, TRUE) :
        av \in AvailShapes55, lv \in {"Ortaokul", "Lise"}, split \in {"absent", "true"}}

Init55 ==
    /\ inp \in Inputs55
    /\ pc = "build"
    /\ y1 = {} /\ y2 = {} /\ y3 = {} /\ x = {}
    /\ notes = <<>>
    /\ sol = EmptyY
    /\ status = ""
    /\ xval = {}
    /\ schedule = <<>>
    /\ placements = 0
    /\ timedOut = FALSE
    /\ mig = MigOff
    /\ auth = AuthOff
    /\ store = StoreOff

StartRank(st) == KeyRank(st[2]) * 4 + st[1]

SolverAssignInOrder ==
    /\ pc = "solve"
    /\ ModelValid
    /\ LET cand == {st \in AllStarts \ StartsOf(sol) : Hard(AddStart(sol, st), FALSE)}
       IN /\ cand # {}
          /\ sol' = AddStart(sol, CHOOSE st \in cand :
                                     \A q \in cand : StartRank(st) <= StartRank(q))
    /\ UNCHANGED <<auth, store, mig, timedOut, inp, pc, y1, y2, y3, x, notes, status, xval, schedule, placements>>

Next55 ==
    \/ Build
    \/ SolverAssignInOrder
    \/ SolverReturnSolution
    \/ SolverReturnInfeasible
    \/ SolverReturnUnknown
    \/ Extract

Spec55 == Init55 /\ [][Next55]_vars

(***************************************************************************)
(* The runs of the migration runner.  Two runners share the database; a    *)
(* runner may be interrupted between any two of its statements.            *)
(***************************************************************************)
\* no call of solve_cp_sat is in progress
IdleInput ==
    Input(Hours(0, 0), Hours(0, 0), [t \in {} |-> Teacher(FALSE, FALSE, {}, {})],
          [c \in {} |-> [level |-> ""]],
          [s \in {} |-> Subject("", 0, 0, 0, PyNone, {}, NoPin)],
          {}, NoPrefs, PyNone, TRUE)

InitMig ==
    /\ mig \in {MigState(u, n[1], n[2]) :
                  u \in BOOLEAN,
                  n \in {q \in (0 .. NumFiles) \X SUBSET MigFiles : q[2] \subseteq 1 .. q[1]}}
    /\ inp = IdleInput
    /\ pc = "off"
    /\ y1 = {} /\ y2 = {} /\ y3 = {} /\ x = {}
    /\ notes = <<>>
    /\ sol = EmptyY
    /\ status = ""
    /\ xval = {}
    /\ schedule = <<>>
    /\ placements = 0
    /\ timedOut = FALSE
    /\ auth = AuthOff
    /\ store = StoreOff

\* the end of one pass of: for path in files
NextFile(me) ==
    IF me.idx + 1 > mig.nfiles
    THEN [me EXCEPT !.pc = "exit", !.exit = 0]
    ELSE [me EXCEPT !.pc = "select", !.idx = @ + 1]

\* lines 32-45: the url, the files, the connection and the tracking table
MigStart(r) ==
    /\ mig.run[r].pc \in {"off", "exit", "killed"}
    /\ mig.run[r].runs < MaxRuns
    /\ LET fresh == [RunnerOff EXCEPT !.runs = mig.run[r].runs + 1]
       IN mig' = [mig EXCEPT !.run[r] =
                    IF ~mig.url THEN [fresh EXCEPT !.pc = "exit", !.exit = 1]
                    ELSE IF mig.nfiles = 0 THEN [fresh EXCEPT !.pc = "exit", !.exit = 0]
                    ELSE [fresh EXCEPT !.pc = "select", !.idx = 1]]
    /\ UNCHANGED <<solveVars, auth, store>>

\* lines 49-56: SELECT 1 FROM app_migrations WHERE filename = name
MigSelect(r) ==
    /\ mig.run[r].pc = "select"
    /\ mig' = [mig EXCEPT !.run[r] =
                  IF @.idx \in mig.rows THEN NextFile(@) ELSE [@ EXCEPT !.pc = "execute"]]
    /\ UNCHANGED <<solveVars, auth, store>>

\* lines 58-62, 68-70: cur.execute(sql_text); an exception ends the run with 1
MigExecute(r) ==
    /\ mig.run[r].pc = "execute"
    /\ LET f == mig.run[r].idx
       IN mig' = IF f \in mig.failing
                 THEN [mig EXCEPT !.run[r].pc = "exit", !.run[r].exit = 1]
                 ELSE [mig EXCEPT !.executed[f] = @ + 1,
                                  !.run[r].applied = Append(@, f),
                                  !.run[r].pc = "insert"]
    /\ UNCHANGED <<solveVars, auth, store>>

\* lines 63-67: INSERT INTO app_migrations ... ON CONFLICT DO NOTHING
MigInsert(r) ==
    /\ mig.run[r].pc = "insert"
    /\ mig' = [mig EXCEPT !.rows = @ \cup {mig.run[r].idx},
                          !.run[r] = NextFile(@)]
    /\ UNCHANGED <<solveVars, auth, store>>

\* the process is stopped, or the connection is lost, between two statements
MigInterrupt(r) ==
    /\ mig.run[r].pc \in {"select", "execute", "insert"}
    /\ mig' = [mig EXCEPT !.run[r].pc = "killed"]
    /\ UNCHANGED <<solveVars, auth, store>>

NextMig ==
    \E r \in Runners :
        \/ MigStart(r)
        \/ MigSelect(r)
        \/ MigExecute(r)
        \/ MigInsert(r)
        \/ MigInterrupt(r)

SpecMig == InitMig /\ [][NextMig]_vars


(***************************************************************************)
(* POST /api/auth/request-code and POST /api/auth/verify.  No request      *)
(* carries a credential: the callers are anybody.  known is what the       *)
(* responses have handed to the callers: the rows whose code and token     *)
(* they hold.  The field from of a session row (the code row it was issued *)
(* for) is not in the table; it is kept to count the sessions of a code.   *)
(***************************************************************************)
InitAuth ==
    /\ auth = AuthStart
    /\ store = StoreOff
    /\ mig = MigOff
    /\ inp = IdleInput
    /\ pc = "off"
    /\ y1 = {} /\ y2 = {} /\ y3 = {} /\ x = {}
    /\ notes = <<>>
    /\ sol = EmptyY
    /\ status = ""
    /\ xval = {}
    /\ schedule = <<>>
    /\ placements = 0
    /\ timedOut = FALSE

Free(i) == auth.h[i].pc \in {"idle", "done"} /\ auth.started < MaxRequests

TokenRow(u, purpose, sc, from) ==
    [user |-> u, purpose |-> purpose, consumed |-> FALSE, expired |-> FALSE,
     school |-> sc, from |-> from]

\* _attach_school(user['id'], payload.school_id, role): nothing without a school
AfterUser(sc) == IF sc = 0 THEN "rc_insert_token" ELSE "rc_select_member"

\* request_code, _db_upsert_user: SELECT ... FROM users WHERE email = %s
RequestCodeSelectUser(i, e, sc) ==
    /\ Free(i)
    /\ auth' = [auth EXCEPT
          !.started = @ + 1,
          !.h[i] = [HandlerIdle EXCEPT
                       !.email = e, !.school = sc,
                       !.role = IF auth.users[e] # "" THEN auth.users[e] ELSE "admin",
                       !.pc = IF auth.users[e] # "" THEN AfterUser(sc) ELSE "rc_insert_user"]]
    /\ UNCHANGED <<solveVars, mig, store>>

\* _db_upsert_user: INSERT INTO users ... default_role 'admin'; an email
\* inserted meanwhile violates the unique index and the request fails
RequestCodeInsertUser(i) ==
    /\ auth.h[i].pc = "rc_insert_user"
    /\ LET me == auth.h[i]
       IN auth' = IF auth.users[me.email] # ""
                  THEN [auth EXCEPT !.h[i].pc = "done",
                                    !.h[i].resp = [NoResp EXCEPT !.kind = "e500"]]
                  ELSE [auth EXCEPT !.users[me.email] = "admin",
                                    !.h[i].pc = AfterUser(me.school)]
    /\ UNCHANGED <<solveVars, mig, store>>

\* _db_attach_school: SELECT role FROM school_users WHERE user_id AND school_id
RequestCodeSelectMember(i) ==
    /\ auth.h[i].pc = "rc_select_member"
    /\ LET me == auth.h[i]
           current == auth.members[me.email]
       IN auth' = [auth EXCEPT !.h[i].pc =
                      IF current = "" THEN "rc_insert_member"
                      ELSE IF current # me.role THEN "rc_update_member"
                      ELSE "rc_insert_token"]
    /\ UNCHANGED <<solveVars, mig, store>>

\* _db_attach_school: UPDATE school_users SET role = %s
RequestCodeUpdateMember(i) ==
    /\ auth.h[i].pc = "rc_update_member"
    /\ LET me == auth.h[i]
       IN auth' = [auth EXCEPT !.members[me.email] = IF @ # "" THEN me.role ELSE @,
                               !.h[i].pc = "rc_insert_token"]
    /\ UNCHANGED <<solveVars, mig, store>>

\* _db_attach_school: INSERT INTO school_users (user_id, school_id, role); a
\* row inserted meanwhile violates the key and the request fails
RequestCodeInsertMember(i) ==
    /\ auth.h[i].pc = "rc_insert_member"
    /\ LET me == auth.h[i]
       IN auth' = IF auth.members[me.email] # ""
                  THEN [auth EXCEPT !.h[i].pc = "done",
                                    !.h[i].resp = [NoResp EXCEPT !.kind = "e500"]]
                  ELSE [auth EXCEPT !.members[me.email] = me.role,
                                    !.h[i].pc = "rc_insert_token"]
    /\ UNCHANGED <<solveVars, mig, store>>

\* request_code: _insert_login_token(..., purpose=CODE_PURPOSE, ...)
RequestCodeInsertToken(i) ==
    /\ auth.h[i].pc = "rc_insert_token"
    /\ LET me == auth.h[i]
       IN auth' = [auth EXCEPT
             !.tokens = Append(@, TokenRow(me.email, "code", me.school, 0)),
             !.h[i].rec = Len(auth.tokens) + 1,
             !.h[i].pc = "rc_respond"]
    /\ UNCHANGED <<solveVars, mig, store>>

\* request_code: the memberships are read and the code and the token are
\* returned in the response
RequestCodeRespond(i) ==
    /\ auth.h[i].pc = "rc_respond"
    /\ LET me == auth.h[i]
       IN auth' = [auth EXCEPT
             !.known = @ \cup {me.rec},
             !.h[i].pc = "done",
             !.h[i].resp = [kind |-> "code", user |-> me.email, tok |-> me.rec,
                            role |-> auth.members[me.email]]]
    /\ UNCHANGED <<solveVars, mig, store>>

\* _db_find_token_by_code: the row of the code, if not consumed nor expired
FindByCode(k) ==
    IF /\ auth.tokens[k].purpose = "code"
       /\ ~auth.tokens[k].consumed
       /\ ~auth.tokens[k].expired
    THEN k ELSE 0

\* _db_find_session: the row of the token among the sessions, if not expired
FindSession(k) ==
    IF auth.tokens[k].purpose = "session" /\ ~auth.tokens[k].expired THEN k ELSE 0

\* verify_code: the record is looked up by the code or by the token of the
\* payload; 404 code-not-found without a record
VerifyFind(i, by, k) ==
    /\ Free(i)
    /\ k \in auth.known
    /\ by = "code" => auth.tokens[k].purpose = "code"
    /\ LET record == IF by = "code" THEN FindByCode(k) ELSE FindSession(k)
       IN auth' = [auth EXCEPT
             !.started = @ + 1,
             !.h[i] = IF record = 0
                      THEN [HandlerIdle EXCEPT !.pc = "done",
                                               !.resp = [NoResp EXCEPT !.kind = "e404"]]
                      ELSE [HandlerIdle EXCEPT
                               !.rec = record,
                               !.email = auth.tokens[record].user,
                               !.pc = IF auth.tokens[record].purpose = "code"
                                      THEN "vf_mark" ELSE "vf_respond"]]
    /\ UNCHANGED <<solveVars, mig, store>>

\* verify_code: _mark_token_consumed(record['token'])
VerifyMarkConsumed(i) ==
    /\ auth.h[i].pc = "vf_mark"
    /\ auth' = [auth EXCEPT !.tokens[auth.h[i].rec].consumed = TRUE,
                            !.h[i].pc = "vf_insert_session"]
    /\ UNCHANGED <<solveVars, mig, store>>

\* verify_code: _insert_login_token(record['user_id'], ..., purpose=SESSION_PURPOSE)
VerifyInsertSession(i) ==
    /\ auth.h[i].pc = "vf_insert_session"
    /\ LET me == auth.h[i]
       IN auth' = [auth EXCEPT
             !.tokens = Append(@, TokenRow(me.email, "session",
                                           auth.tokens[me.rec].school, me.rec)),
             !.h[i].rec = Len(auth.tokens) + 1,
             !.h[i].pc = "vf_respond"]
    /\ UNCHANGED <<solveVars, mig, store>>

\* verify_code: the user and the memberships are read (no request removes a
\* user) and the session is returned
VerifyRespond(i) ==
    /\ auth.h[i].pc = "vf_respond"
    /\ LET me == auth.h[i]
       IN auth' = [auth EXCEPT
             !.known = @ \cup {me.rec},
             !.h[i].pc = "done",
             !.h[i].resp = [kind |-> "session", user |-> me.email, tok |-> me.rec,
                            role |-> auth.members[me.email]]]
    /\ UNCHANGED <<solveVars, mig, store>>

\* expires_at of a row is reached
TokenExpires(k) ==
    /\ k \in 1 .. Len(auth.tokens)
    /\ ~auth.tokens[k].expired
    /\ auth' = [auth EXCEPT !.tokens[k].expired = TRUE]
    /\ UNCHANGED <<solveVars, mig, store>>

NextAuth ==
    \/ \E i \in Handlers : \E e \in Emails : \E sc \in {0, 1} : RequestCodeSelectUser(i, e, sc)
    \/ \E i \in Handlers : RequestCodeInsertUser(i)
    \/ \E i \in Handlers : RequestCodeSelectMember(i)
    \/ \E i \in Handlers : RequestCodeUpdateMember(i)
    \/ \E i \in Handlers : RequestCodeInsertMember(i)
    \/ \E i \in Handlers : RequestCodeInsertToken(i)
    \/ \E i \in Handlers : RequestCodeRespond(i)
    \/ \E i \in Handlers : \E by \in {"code", "token"} : \E k \in 1 .. MaxRequests :
          VerifyFind(i, by, k)
    \/ \E i \in Handlers : VerifyMarkConsumed(i)
    \/ \E i \in Handlers : VerifyInsertSession(i)
    \/ \E i \in Handlers : VerifyRespond(i)
    \/ \E k \in 1 .. MaxRequests : TokenExpires(k)

SpecAuth == InitAuth /\ [][NextAuth]_vars

(***************************************************************************)
(* The operations of storage.py on login_tokens.  An operation reads the   *)
(* whole file, changes its copy and writes the whole file back; _lock is   *)
(* held by _write only.  A token an operation adds is named by the rank of *)
(* the operation; added and marked record what the finished operations     *)
(* returned to their callers.                                              *)
(***************************************************************************)
InitStore ==
    /\ store = StoreStart
    /\ auth = AuthOff
    /\ mig = MigOff
    /\ inp = IdleInput
    /\ pc = "off"
    /\ y1 = {} /\ y2 = {} /\ y3 = {} /\ x = {}
    /\ notes = <<>>
    /\ sol = EmptyY
    /\ status = ""
    /\ xval = {}
    /\ schedule = <<>>
    /\ placements = 0
    /\ timedOut = FALSE

\* _read: json.loads of the file; a file that does not parse gives the defaults
ReadFile == IF store.torn THEN <<>> ELSE store.file

\* _next_id: max of the ids, 0 without items, plus 1
NextId(items) ==
    IF items = <<>> THEN 1
    ELSE 1 + CHOOSE m \in {items[k].id : k \in DOMAIN items} :
                 \A k \in DOMAIN items : items[k].id <= m

ProcFree(q) == store.p[q].pc \in {"idle", "done"} /\ store.ops < MaxOps

\* add_login_token: obj = _read(); new_id = _next_id(tokens); tokens.append(rec)
AddLoginTokenRead(q) ==
    /\ ProcFree(q)
    /\ LET tokens == ReadFile
           new_id == NextId(tokens)
           t == store.ops + 1
       IN store' = [store EXCEPT
             !.ops = @ + 1,
             !.p[q] = [pc |-> "write", op |-> "add", tok |-> t, id |-> new_id,
                       obj |-> Append(tokens, TokenRec(new_id, t, FALSE))]]
    /\ UNCHANGED <<solveVars, mig, auth>>

\* mark_login_token_consumed: obj = _read(); the first record of the token is
\* marked; None without it
MarkConsumedRead(q, t) ==
    /\ ProcFree(q)
    /\ t = 0 \/ \E a \in store.added : a.tok = t
    /\ LET tokens == ReadFile
           hits == {k \in DOMAIN tokens : tokens[k].token = t}
           first == CHOOSE k \in hits : \A j \in hits : k <= j
       IN store' = [store EXCEPT
             !.ops = @ + 1,
             !.p[q] = IF hits = {}
                      THEN [ProcIdle EXCEPT !.pc = "done", !.op = "mark", !.tok = t]
                      ELSE [pc |-> "write", op |-> "mark", tok |-> t, id |-> tokens[first].id,
                            obj |-> [tokens EXCEPT ![first].consumed = TRUE]]]
    /\ UNCHANGED <<solveVars, mig, auth>>

\* _write: with _lock, write_text opens the file for writing: it is empty
WriteOpen(q) ==
    /\ store.p[q].pc = "write"
    /\ store.lock = 0
    /\ store' = [store EXCEPT !.lock = q, !.torn = TRUE, !.p[q].pc = "fill"]
    /\ UNCHANGED <<solveVars, mig, auth>>

\* _write: the text is written, the file closed and _lock released; the
\* operation returns its record
WriteFill(q) ==
    /\ store.p[q].pc = "fill"
    /\ LET me == store.p[q]
       IN store' = [store EXCEPT
             !.file = me.obj, !.torn = FALSE, !.lock = 0,
             !.added = IF me.op = "add" THEN @ \cup {[tok |-> me.tok, id |-> me.id]} ELSE @,
             !.marked = IF me.op = "mark" THEN @ \cup {me.tok} ELSE @,
             !.p[q].pc = "done"]
    /\ UNCHANGED <<solveVars, mig, auth>>

NextStore ==
    \/ \E q \in Procs : AddLoginTokenRead(q)
    \/ \E q \in Procs : \E t \in 0 .. MaxOps : MarkConsumedRead(q, t)
    \/ \E q \in Procs : WriteOpen(q)
    \/ \E q \in Procs : WriteFill(q)

SpecStore == InitStore /\ [][NextStore]_vars

(***************************************************************************)
(* The objective on a heavy day.  One class, one teacher, one subject of   *)
(* 6 hours (8: infeasible) on a week with a single day of HeavyDayLen      *)
(* hours, so that a day of at least 6 occupied hours exists; the weights   *)
(* of the objective vary, and a weight int() cannot convert raises.        *)
(***************************************************************************)
\* the length of the long day
HeavyDayLen == 7

FullAvailHeavy == Days \X (0 .. (HeavyDayLen - 1))

\* edgeWeight, nogapWeight, teacherGapWeight
WeightShapes ==
    {<<PyAbsent, PyAbsent, PyNone>>, <<PyNum(1), PyNum(0), PyNone>>,
     <<PyNum(0), PyNum(3), PyNum(0)>>, <<PyNum(0), PyNum(0), PyNum(2)>>,
     <<PyNum(0), PyNum(0), PyNum(0)>>, <<PyNum(0), PyNum(0), PyNone>>,
     <<PyAbsent, PyNum(0), PyNum(-2)>>}

FamHeavy ==
    {Input(Hours(HeavyDayLen, 0), Hours(0, 0),
           [t \in {"T1"} |-> Teacher(TRUE, FALSE, {}, FullAvailHeavy)],
           OneClass("Ortaokul"),
           [s \in {"S1"} |-> Subject("Mat", wh, 0, 0, PyNone, {"A"}, NoPin)],
           {}, Prefs("true", PyNone, w[3], PyNone, w[1], w[2]), PyNone, saf) :
        wh \in {6, 8}, w \in WeightShapes, saf \in BOOLEAN}

FamWeightErrors ==
    {Input(Hours(2, 0), Hours(0, 0),
           [t \in {"T1"} |-> Teacher(TRUE, FALSE, {}, FullAvail)],
           OneClass("Ortaokul"),
           [s \in {"S1"} |-> Subject("Mat", 1, 0, 0, PyNone, {"A"}, NoPin)],
           {}, Prefs("true", PyNone, PyNone, PyNone, w[1], w[2]), PyNone, saf) :
        w \in {<<PyNone, PyAbsent>>, <<PyAbsent, PyStr>>, <<PyNum(1), PyNone>>},
        saf \in BOOLEAN}

InputsObj == FamHeavy \cup FamWeightErrors

InitObj ==
    /\ inp \in InputsObj
    /\ pc = "build"
    /\ y1 = {} /\ y2 = {} /\ y3 = {} /\ x = {}
    /\ notes = <<>>
    /\ sol = EmptyY
    /\ status = ""
    /\ xval = {}
    /\ schedule = <<>>
    /\ placements = 0
    /\ timedOut = FALSE
    /\ mig = MigOff
    /\ auth = AuthOff
    /\ store = StoreOff

NextObj ==
    \/ Build
    \/ WeightRaise
    \/ SolverAssign
    \/ SolverReturnSolution
    \/ SolverReturnInfeasible
    \/ SolverReturnUnknown
    \/ Extract

SpecObj == InitObj /\ [][NextObj]_vars

(***************************************************************************)
(* Reading the result.                                                     *)
(***************************************************************************)
Finished == pc = "done" /\ Returned

CellAt(c, d, h) == IF <<c, d, h>> \in DOMAIN schedule THEN schedule[<<c, d, h>>] ELSE NoCell

SubjectAt(c, s, d, h) == CellAt(c, d, h).subjectId = s

TeacherAt(t, d, h) == \E c \in Classrooms : CellAt(c, d, h).teacherId = t

HoursRange == 0 .. MaxHours

CellsOf(c, s) == {g \in DOMAIN schedule : g[1] = c /\ schedule[g].subjectId = s}

\* a maximal run of subject s in class c on day d, from hour a to hour b
IsRun(c, s, d, a, b) ==
    /\ a <= b
    /\ \A h \in a .. b : SubjectAt(c, s, d, h)
    /\ ~SubjectAt(c, s, d, a - 1)
    /\ ~SubjectAt(c, s, d, b + 1)

RunsOfLength(c, s, n) ==
    {dh \in Days \X HoursRange : IsRun(c, s, dh[1], dh[2], dh[2] + n - 1)}

HasStartVars(c, s) == OfPair(y1 \cup y2 \cup y3, c, s) # {}

(***************************************************************************)
(* C1.  Slot exclusivity: in every returned solution at most one x of a    *)
(* classroom slot is true, the cell holds that (subject, teacher) pair and *)
(* the extractor discards no true x.                                       *)
(***************************************************************************)
C1_SlotExclusive ==
    Finished =>
        /\ \A c \in Classrooms : \A d \in Days : \A h \in 0 .. (AllowedLen(c, d) - 1) :
              Cardinality({k \in xval : k[1] = c /\ k[4] = d /\ k[5] = h}) <= 1
        /\ \A k \in xval : CellAt(k[1], k[4], k[5]) = assign(k)
        /\ placements = Cardinality(xval)

\* a slot with x variables of two subjects, one of them true
C1_Witness ==
    /\ Finished
    /\ \E k \in xval : \E j \in x :
          j[1] = k[1] /\ j[4] = k[4] /\ j[5] = k[5] /\ j[2] # k[2] /\ j[3] # k[3]

(***************************************************************************)
(* C2.  Teacher exclusivity: in every returned solution no teacher is      *)
(* named by two cells of the same (day, hour), also when the teacher       *)
(* teaches at both levels and the levels have different day lengths.       *)
(***************************************************************************)
C2_TeacherExclusive ==
    Finished =>
        \A t \in Teachers : \A d \in Days : \A h \in HoursRange :
            Cardinality({g \in DOMAIN schedule :
                            g[2] = d /\ g[3] = h /\ schedule[g].teacherId = t}) <= 1

\* a teacher named in a middle-school and in a high-school grid whose days differ in length
C2_Witness ==
    /\ Finished
    /\ \E t \in Teachers : \E g1, g2 \in DOMAIN schedule :
          /\ schedule[g1].teacherId = t /\ schedule[g2].teacherId = t
          /\ inp.classrooms[g1[1]].level = "Ortaokul"
          /\ inp.classrooms[g2[1]].level = "Lise"
          /\ g1[2] = g2[2]
          /\ inp.hours.Ortaokul[g1[2]] # inp.hours.Lise[g1[2]]

(***************************************************************************)
(* C3.  Weekly hours: every modelled (classroom, subject) with weeklyHours *)
(* w > 0 has exactly w cells in a returned solution, whatever the          *)
(* availability of its eligible teachers.                                  *)
(***************************************************************************)
C3_WeeklyHours ==
    Finished =>
        \A p \in Modelled :
            weeklyHours(p[2]) > 0 => Cardinality(CellsOf(p[1], p[2])) = weeklyHours(p[2])

(***************************************************************************)
(* C4.  Fixed pins: in a returned solution every fixed assignment of the   *)
(* input is in the schedule, whether or not its pair is modelled.  Stated  *)
(* for the pins the input contract allows: the ids resolve and the slot is *)
(* inside the class day.                                                   *)
(***************************************************************************)
WellFormedPin(fa) ==
    /\ fa.classroomId \in Classrooms
    /\ fa.subjectId \in Subjects
    /\ fa.dayIndex \in Days
    /\ fa.hourIndex \in 0 .. (AllowedLen(fa.classroomId, fa.dayIndex) - 1)

C4_FixedHonored ==
    Finished =>
        \A fa \in inp.fixedAssignments :
            WellFormedPin(fa) =>
                CellAt(fa.classroomId, fa.dayIndex, fa.hourIndex).subjectId = fa.subjectId

(***************************************************************************)
(* C5.  Availability: a cell names a teacher only at an hour the teacher   *)
(* is available; a true x is covered by a 1-, 2- or 3-hour start whose     *)
(* hours all lie inside the class day and are available for the teacher.   *)
(***************************************************************************)
StartHours(st) == st[2][5] .. (st[2][5] + st[1] - 1)

C5_Availability ==
    Finished =>
        /\ \A g \in DOMAIN schedule :
              schedule[g] # NoCell => Avail(schedule[g].teacherId, g[2], g[3])
        /\ \A k \in xval :
              \E st \in StartsOf(sol) :
                  /\ Shift(k, 0) = <<st[2][1], st[2][2], st[2][3], st[2][4], k[5]>>
                  /\ k[5] \in StartHours(st)
                  /\ \A h \in StartHours(st) :
                        h < AllowedLen(k[1], k[4]) /\ Avail(k[3], k[4], h)

\* a block of 2 or 3 hours placed for a teacher who is not available all week
C5_Witness ==
    /\ Finished
    /\ \E st \in StartsOf(sol) :
          st[1] >= 2 /\ inp.teachers[st[2][3]].availability # FullAvail

(***************************************************************************)
(* C6.  As claimed: the number of maximal same-day runs of length exactly  *)
(* 2 is blockHours/2 and of length exactly 3 is tripleBlockHours/3.        *)
(***************************************************************************)
C6_RunCounts ==
    Finished =>
        \A p \in Modelled :
            (weeklyHours(p[2]) > 0 /\ HasStartVars(p[1], p[2])) =>
                /\ Cardinality(RunsOfLength(p[1], p[2], 2)) = block2(p[2])
                /\ Cardinality(RunsOfLength(p[1], p[2], 3)) = block3(p[2])

(***************************************************************************)
(* C6, amended.  For every modelled pair with weeklyHours > 0 and a start  *)
(* variable, a returned solution has exactly blockHours div 2 true 2-hour  *)
(* starts and tripleBlockHours div 3 true 3-hour starts, and every start   *)
(* fills its consecutive same-day cells with the subject and the teacher   *)
(* of the start.  Adjacent blocks merge: with weeklyHours = 4 and          *)
(* blockHours = 4 every maximal run has length 2 or 4.                     *)
(***************************************************************************)
C6_BlockStarts ==
    Finished =>
        \A p \in Modelled :
            (weeklyHours(p[2]) > 0 /\ HasStartVars(p[1], p[2])) =>
                /\ Cardinality(OfPair(sol.y2, p[1], p[2])) = block2(p[2])
                /\ Cardinality(OfPair(sol.y3, p[1], p[2])) = block3(p[2])
                /\ \A st \in StartsOf(sol) :
                      (st[2][1] = p[1] /\ st[2][2] = p[2]) =>
                          \A h \in StartHours(st) :
                              CellAt(p[1], st[2][4], h) = assign(st[2])
                /\ (weeklyHours(p[2]) = 4 /\ inp.subjects[p[2]].blockHours = 4
                    /\ inp.subjects[p[2]].tripleBlockHours = 0) =>
                       \A n \in 1 .. (MaxHours + 1) :
                           RunsOfLength(p[1], p[2], n) # {} => n \in {2, 4}

\* two 2-hour blocks of one subject placed back to back: one run of 4
C6_Witness ==
    /\ Finished
    /\ \E p \in Modelled :
          /\ weeklyHours(p[2]) = 4 /\ inp.subjects[p[2]].blockHours = 4
          /\ RunsOfLength(p[1], p[2], 4) # {}

(***************************************************************************)
(* C7.  Max-consecutive: with weeklyHours w > 0 and a maxConsec defined    *)
(* (the subject's, else the default), m = max(1, min(w, maxConsec)): no    *)
(* run of the subject on a day of a returned solution is longer than m.    *)
(***************************************************************************)
maxConsecRaw(s) ==
    IF inp.subjects[s].maxConsec.k # "none"
    THEN inp.subjects[s].maxConsec ELSE inp.default_max_consec

C7_MaxConsec ==
    Finished =>
        \A p \in Modelled :
            (weeklyHours(p[2]) > 0 /\ maxConsecRaw(p[2]).k = "num"
             /\ maxConsecRaw(p[2]).twice % 2 = 0) =>
                LET m == Max2(1, Min2(weeklyHours(p[2]), maxConsecRaw(p[2]).twice \div 2))
                IN \A d \in Days : \A a \in HoursRange :
                      ~(\A h \in a .. (a + m) : SubjectAt(p[1], p[2], d, h))

\* maxConsec 0 is enforced as 1: the hours of the subject are placed, none adjacent
C7_Witness ==
    /\ Finished
    /\ \E p \in Modelled :
          /\ weeklyHours(p[2]) >= 2
          /\ maxConsecRaw(p[2]) = PyNum(0)
          /\ Cardinality(CellsOf(p[1], p[2])) = weeklyHours(p[2])

(***************************************************************************)
(* C8.  Contiguity: with allowSameDaySplit false or absent the hours of a  *)
(* subject in a class on a day form an interval, whatever the length of    *)
(* the hole.  Stated for the subjects with weeklyHours > 0.                *)
(***************************************************************************)
C8_Interval ==
    (Finished /\ ~allow_same_day_split) =>
        \A c \in Classrooms : \A s \in Subjects : \A d \in Days :
            \A h1, h2, h3 \in HoursRange :
                (weeklyHours(s) > 0 /\ h1 < h2 /\ h2 < h3
                 /\ SubjectAt(c, s, d, h1) /\ SubjectAt(c, s, d, h3))
                    => SubjectAt(c, s, d, h2)

(***************************************************************************)
(* C9.  As claimed: an integer teacherDailyMaxHours = D >= 0 caps every    *)
(* teacher at D cells a day (none at all with D = 0), and a negative or    *)
(* non-integer value imposes no cap.                                       *)
(***************************************************************************)
DailyCells(t, d) == {g \in DOMAIN schedule : g[2] = d /\ schedule[g].teacherId = t}

IsInteger(raw) == raw.k = "num" /\ raw.twice % 2 = 0

C9_DailyCap ==
    LET raw == inp.prefs.teacherDailyMaxHours
    IN /\ (Finished /\ IsInteger(raw) /\ raw.twice >= 0) =>
              \A t \in Teachers : \A d \in Days :
                  Cardinality(DailyCells(t, d)) <= raw.twice \div 2
       /\ (raw.k # "none" /\ (~IsInteger(raw) \/ raw.twice < 0)) => ~teacher_daily_max.some

(***************************************************************************)
(* C9, amended.  The cap is int(value), truncated toward zero: when the    *)
(* conversion succeeds with D >= 0 no teacher is named in more than D      *)
(* cells of a day (none at all with D = 0), so 1.5 caps at 1 and -0.5 at   *)
(* 0; no cap is imposed when the value is absent, int() rejects it or the  *)
(* converted value is negative.                                            *)
(***************************************************************************)
Truncated(raw) ==
    IF raw.twice >= 0 THEN raw.twice \div 2 ELSE 0 - ((0 - raw.twice) \div 2)

C9_DailyCapTruncated ==
    LET raw == inp.prefs.teacherDailyMaxHours
        capped == raw.k = "num" /\ Truncated(raw) >= 0
    IN /\ (Finished /\ capped) =>
              \A t \in Teachers : \A d \in Days :
                  Cardinality(DailyCells(t, d)) <= Truncated(raw)
       /\ teacher_daily_max.some <=> capped
       /\ capped => teacher_daily_max.v = Truncated(raw)

\* a fractional cap that binds: 1.5 holds a teacher with two weekly hours to one a day
C9_Witness ==
    /\ Finished
    /\ inp.prefs.teacherDailyMaxHours = PyHalf(3)
    /\ \E t \in Teachers : \E d1, d2 \in Days :
          d1 # d2 /\ Cardinality(DailyCells(t, d1)) = 1 /\ Cardinality(DailyCells(t, d2)) = 1

(***************************************************************************)
(* C10.  Gap cap: with an integer maxTeacherGapHours = G >= 0, in every    *)
(* returned solution each teacher has on each day at most G hours h,       *)
(* 1 <= h <= allowedLen - 2, idle between an occupied h-1 and h+1; also    *)
(* when stopAtFirst is true or every objective weight is 0.                *)
(***************************************************************************)
GapHours(t, d) ==
    {h \in 1 .. (TeacherDayLen(d) - 2) :
        TeacherAt(t, d, h - 1) /\ ~TeacherAt(t, d, h) /\ TeacherAt(t, d, h + 1)}

C10_GapCap ==
    LET raw == inp.prefs.maxTeacherGapHours
    IN (Finished /\ IsInteger(raw) /\ raw.twice >= 0) =>
          \A t \in Teachers : \A d \in Days :
              Cardinality(GapHours(t, d)) <= raw.twice \div 2

\* a cap of 1 reached without an objective
C10_Witness ==
    /\ Finished
    /\ ~HasObjective
    /\ inp.prefs.maxTeacherGapHours = PyNum(1)
    /\ \E t \in Teachers : \E d \in Days : Cardinality(GapHours(t, d)) = 1

(***************************************************************************)
(* C11.  A status other than OPTIMAL and FEASIBLE (INFEASIBLE,             *)
(* MODEL_INVALID, UNKNOWN) is returned normally: every cell of every grid  *)
(* is null, placements is 0, the last note is status=<NAME>, and timedOut  *)
(* is true exactly when the status is UNKNOWN.                             *)
(***************************************************************************)
NoSolutionStatus == {"INFEASIBLE", "MODEL_INVALID", "UNKNOWN"}

C11_NoSolutionResult ==
    /\ status \in NoSolutionStatus => pc \in {"extract", "done"}
    /\ (pc = "done" /\ status \in NoSolutionStatus) =>
          /\ DOMAIN schedule = Grid
          /\ \A g \in DOMAIN schedule : schedule[g] = NoCell
          /\ placements = 0
          /\ Len(notes) >= 1
          /\ notes[Len(notes)] = <<"status=", status>>
          /\ timedOut <=> (status = "UNKNOWN")

\* INFEASIBLE returned with a grid of null cells and timedOut false
C11_Witness ==
    /\ pc = "done"
    /\ status = "INFEASIBLE"
    /\ DOMAIN schedule # {}
    /\ ~timedOut

(***************************************************************************)
(* C12.  Malformed input is rejected before any variable is created.       *)
(* Stated for a fixed assignment outside [0,5) x [0,allowedLen), a         *)
(* blockHours not divisible by 2 and a tripleBlockHours not divisible by   *)
(* 3: such an input never gets past the start of the call, except by an    *)
(* exception.                                                              *)
(***************************************************************************)
PinOutOfRange(fa) ==
    \/ fa.dayIndex \notin Days
    \/ fa.hourIndex < 0
    \/ (fa.classroomId \in Classrooms /\ fa.dayIndex \in Days
        /\ fa.hourIndex >= AllowedLen(fa.classroomId, fa.dayIndex))

MalformedInput ==
    \/ \E fa \in inp.fixedAssignments : PinOutOfRange(fa)
    \/ \E s \in Subjects : inp.subjects[s].blockHours % 2 # 0
    \/ \E s \in Subjects : inp.subjects[s].tripleBlockHours % 3 # 0

C12_Rejected ==
    MalformedInput =>
        /\ pc \in {"build", "raised"}
        /\ x = {} /\ y1 = {} /\ y2 = {} /\ y3 = {}

(***************************************************************************)
(* C13.  eligibleTeachers(c, s) is {p} when the pin of s for c is the id p *)
(* of a teacher of the catalog, and otherwise, whatever the pin holds, the *)
(* teachers whose level flag fits the class and whose branches are empty   *)
(* or contain the name of the subject.  The teachers of the x variables    *)
(* created for (c, s) are the value the call returned.                     *)
(***************************************************************************)
PinOf(c, s) == inp.subjects[s].pinnedTeacherByClassroom[c]

PinIsTeacherId(c, s) == PinOf(c, s).k = "str" /\ PinOf(c, s).ids[1] \in Teachers

ExpectedEligible(c, s) ==
    IF PinIsTeacherId(c, s) THEN {PinOf(c, s).ids[1]}
    ELSE {t \in Teachers :
            /\ (inp.classrooms[c].level = "Ortaokul" => inp.teachers[t].canTeachMiddleSchool)
            /\ (inp.classrooms[c].level = "Lise" => inp.teachers[t].canTeachHighSchool)
            /\ (inp.teachers[t].branches = {}
                \/ inp.subjects[s].name \in inp.teachers[t].branches)}

HasSlots(c) == \E d \in Days : AllowedLen(c, d) > 0

C13_Eligible ==
    pc # "build" =>
        /\ pc # "raised"
        /\ \A p \in Resolved :
              HasSlots(p[1]) => {k[3] : k \in OfPair(x, p[1], p[2])} = ExpectedEligible(p[1], p[2])

(***************************************************************************)
(* C14.  As claimed: a resolvable pair without an eligible teacher adds    *)
(* exactly one note "Skipped: {name} / {id} (no eligible teacher)", gets   *)
(* no variable, the rest is solved and the schedule of the class holds no  *)
(* cell of the subject.                                                    *)
(***************************************************************************)
NotesEqual(n) == {i \in 1 .. Len(notes) : notes[i] = n}

NoVariableOf(c, s) == OfPair(x \cup y1 \cup y2 \cup y3, c, s) = {}

C14_SkipNoteEnglish ==
    pc \in {"solve", "extract", "done"} =>
        \A p \in Resolved :
            ExpectedEligible(p[1], p[2]) = {} =>
                /\ Cardinality(NotesEqual(<<"Skipped: ", inp.subjects[p[2]].name, " / ", p[1],
                                           " (no eligible teacher)">>)) = 1
                /\ NoVariableOf(p[1], p[2])
                /\ pc = "done" => CellsOf(p[1], p[2]) = {}

(***************************************************************************)
(* C14, amended.  The note is the text of the source, "Atlandi: {name} /   *)
(* {id} (uygun ogretmen yok)" (written here without the dotless i and the  *)
(* umlauts of the source): exactly one per skipped pair, before the status *)
(* note; the pair gets no variable, the other pairs keep theirs, the       *)
(* solver still runs and no cell of the class holds the subject.           *)
(***************************************************************************)
C14_SkipNote ==
    pc \in {"solve", "extract", "done"} =>
        /\ \A p \in Resolved :
              ExpectedEligible(p[1], p[2]) = {} =>
                  /\ Cardinality(NotesEqual(<<"Atlandi: ", inp.subjects[p[2]].name, " / ", p[1],
                                             " (uygun ogretmen yok)">>)) = 1
                  /\ NoVariableOf(p[1], p[2])
                  /\ pc = "done" => CellsOf(p[1], p[2]) = {}
        /\ \A p \in Resolved :
              (ExpectedEligible(p[1], p[2]) # {} /\ HasSlots(p[1])) => ~NoVariableOf(p[1], p[2])
        /\ pc = "done" =>
              /\ status # ""
              /\ Len(notes) = Cardinality(Skipped) + 1
              /\ notes[Len(notes)] = <<"status=", status>>

\* one subject of a class skipped, the other one placed
C14_Witness ==
    /\ Finished
    /\ \E p \in Resolved : ExpectedEligible(p[1], p[2]) = {}
    /\ Len(notes) = 2
    /\ placements > 0

(***************************************************************************)
(* C15.  Every result has the grid of every classroom of the input, 5 days *)
(* of allowedLen hours; in a returned solution a cell is non-null exactly  *)
(* when an x of its slot is true, it then holds the subject, the teacher,  *)
(* the location of the subject and the classroom, and placements is the    *)
(* number of non-null cells and the number of true x.                      *)
(***************************************************************************)
HoursOfGrid(c, d) == {g[3] : g \in {q \in DOMAIN schedule : q[1] = c /\ q[2] = d}}

NonNull == {g \in DOMAIN schedule : schedule[g] # NoCell}

C15_Extraction ==
    pc = "done" =>
        /\ \A g \in DOMAIN schedule : g[1] \in Classrooms /\ g[2] \in Days
        /\ \A c \in Classrooms : \A d \in Days :
              HoursOfGrid(c, d) = {h \in 0 .. MaxHours : h < AllowedLen(c, d)}
        /\ Returned =>
              /\ \A g \in DOMAIN schedule :
                    g \in NonNull <=> \E k \in xval : <<k[1], k[4], k[5]>> = g
              /\ \A k \in xval :
                    schedule[<<k[1], k[4], k[5]>>] =
                        [subjectId |-> k[2], teacherId |-> k[3],
                         locationId |-> inp.subjects[k[2]].locationId, classroomId |-> k[1]]
              /\ placements = Cardinality(NonNull)
              /\ placements = Cardinality(xval)

\* lessons placed for one class while the grid of a class without a subject stays null
C15_Witness ==
    /\ Finished
    /\ placements >= 2
    /\ \E c \in Classrooms :
          /\ \A s \in Subjects : c \notin inp.subjects[s].assignedClassIds
          /\ \E g \in DOMAIN schedule : g[1] = c
          /\ \A g \in DOMAIN schedule : g[1] = c => schedule[g] = NoCell

(***************************************************************************)
(* C16.  As claimed: two classes of one level, one subject of 6 weekly     *)
(* hours assigned to both, one teacher for both, 5 days of 5 hours: unless *)
(* the time limit expires the result is status=INFEASIBLE with every cell  *)
(* null, whatever the availability of the teacher.                         *)
(***************************************************************************)
C16_Infeasible ==
    (pc = "done" /\ status # "UNKNOWN") =>
        /\ status = "INFEASIBLE"
        /\ \A g \in DOMAIN schedule : schedule[g] = NoCell

(***************************************************************************)
(* C16, amended.  The 12 lessons fit the 25 slots of the teacher: with the *)
(* teacher available all week the result is never INFEASIBLE, and a        *)
(* returned solution gives each class its 6 cells with the teacher in at   *)
(* most one class per slot.  INFEASIBLE, with every cell null, is the      *)
(* result when the teacher is available at fewer than 12 slots (and at     *)
(* least one): no solution is returned then.                               *)
(***************************************************************************)
SlotsOfTeacher(t) == Cardinality(inp.teachers[t].availability)

C16_FeasibleUnlessShort ==
    \A t \in Teachers :
        /\ (pc = "done" /\ SlotsOfTeacher(t) = 25) => status # "INFEASIBLE"
        /\ Finished =>
              /\ \A c \in Classrooms : Cardinality(CellsOf(c, "S1")) = 6
              /\ \A d \in Days : \A h \in 0 .. 4 :
                    Cardinality({g \in NonNull : g[2] = d /\ g[3] = h}) <= 1
        /\ (pc = "done" /\ SlotsOfTeacher(t) >= 1 /\ SlotsOfTeacher(t) < 12) =>
              /\ status \in {"INFEASIBLE", "UNKNOWN"}
              /\ \A g \in DOMAIN schedule : schedule[g] = NoCell

\* the teacher available all week: both classes get their six lessons
C16_Witness ==
    /\ Finished
    /\ \A t \in Teachers : SlotsOfTeacher(t) = 25
    /\ \A c \in Classrooms : Cardinality(CellsOf(c, "S1")) = 6

(***************************************************************************)
(* C17.  With allowSameDaySplit false no returned solution has a subject   *)
(* in a class at hours h-1 and h+1 of a day but not at h; with             *)
(* allowSameDaySplit true such a 1,0,1 pattern can be returned.            *)
(***************************************************************************)
Pattern101(c, s, d, h) ==
    SubjectAt(c, s, d, h - 1) /\ ~SubjectAt(c, s, d, h) /\ SubjectAt(c, s, d, h + 1)

C17_NoHoleOfOne ==
    (Finished /\ inp.prefs.allowSameDaySplit # "true") =>
        \A c \in Classrooms : \A s \in Subjects : \A d \in Days : \A h \in 1 .. MaxHours :
            ~Pattern101(c, s, d, h)

\* split allowed: a subject at two hours of a day with a free hour between them
C17_Witness ==
    /\ Finished
    /\ inp.prefs.allowSameDaySplit = "true"
    /\ \E c \in Classrooms : \E s \in Subjects : \E d \in Days : \E h \in 1 .. MaxHours :
          weeklyHours(s) > 0 /\ Pattern101(c, s, d, h)

(***************************************************************************)
(* C18.  In any sequence of runs of the migration runner (runs that fail,  *)
(* runs interrupted between the SQL of a file and its row, two runners at  *)
(* once) the SQL of a file is executed at most once; files are applied in  *)
(* sorted order; a run stops with exit code 1 at the first failing file    *)
(* and does not record it.                                                 *)
(***************************************************************************)
Increasing(q) == \A i, j \in 1 .. Len(q) : i < j => q[i] < q[j]

C18_AtMostOnce ==
    /\ \A f \in MigFiles : mig.executed[f] <= 1
    /\ \A r \in Runners : Increasing(mig.run[r].applied)
    /\ mig.rows \cap mig.failing = {}
    /\ \A r \in Runners :
          (mig.url /\ mig.run[r].pc = "exit" /\ mig.run[r].exit = 1) =>
              /\ mig.run[r].idx \in mig.failing
              /\ \A i \in 1 .. Len(mig.run[r].applied) : mig.run[r].applied[i] < mig.run[r].idx

(***************************************************************************)
(* C19.  For every modelled pair with weeklyHours w > 0 (blockHours a      *)
(* multiple of 2, tripleBlockHours a multiple of 3) a solution has         *)
(* blockHours/2 true y2, tripleBlockHours/3 true y3 and                    *)
(* w - blockHours - tripleBlockHours true y1, and every true x is covered  *)
(* by exactly one true start of its (class, subject, teacher, day).        *)
(***************************************************************************)
CoveringStarts(k) ==
    {st \in StartsOf(sol) :
        /\ <<st[2][1], st[2][2], st[2][3], st[2][4]>> = <<k[1], k[2], k[3], k[4]>>
        /\ k[5] \in StartHours(st)}

C19_StartCounts ==
    Finished =>
        /\ \A p \in Modelled :
              LET s == p[2]
                  bh == inp.subjects[s].blockHours
                  th == inp.subjects[s].tripleBlockHours
              IN (weeklyHours(s) > 0 /\ bh >= 0 /\ th >= 0 /\ bh % 2 = 0 /\ th % 3 = 0) =>
                    /\ Cardinality(OfPair(sol.y2, p[1], s)) = bh \div 2
                    /\ Cardinality(OfPair(sol.y3, p[1], s)) = th \div 3
                    /\ Cardinality(OfPair(sol.y1, p[1], s)) = weeklyHours(s) - bh - th
        /\ \A k \in xval : Cardinality(CoveringStarts(k)) = 1

(***************************************************************************)
(* C20.  A fixed assignment without an x variable for its tuple (subject   *)
(* not assigned to the class, pair skipped, unresolved id, hour beyond the *)
(* class day) makes the model infeasible: no solution is returned that     *)
(* ignores the pin.                                                        *)
(***************************************************************************)
NoXFor(fa) ==
    ~\E k \in x : /\ k[1] = fa.classroomId /\ k[2] = fa.subjectId
                  /\ k[4] = fa.dayIndex /\ k[5] = fa.hourIndex

C20_PinWithoutVariable ==
    (pc = "done" /\ \E fa \in inp.fixedAssignments : NoXFor(fa)) => ~Returned

(***************************************************************************)
(* C21.  A subject with weeklyHours = 0 assigned to a class for which it   *)
(* has an eligible teacher gets no cell of that class in any returned      *)
(* solution.                                                               *)
(***************************************************************************)
C21_ZeroHoursNoCell ==
    Finished =>
        \A p \in Modelled :
            weeklyHours(p[2]) = 0 => CellsOf(p[1], p[2]) = {}

(***************************************************************************)
(* C22.  As stated: whenever a modelled subject has blockHours not         *)
(* divisible by 2 or tripleBlockHours not divisible by 3, the result is    *)
(* INFEASIBLE (the solver having decided).                                 *)
(***************************************************************************)
NotDivisible(s) ==
    \/ inp.subjects[s].blockHours % 2 # 0
    \/ inp.subjects[s].tripleBlockHours % 3 # 0

C22_Infeasible ==
    (pc = "done" /\ status # "UNKNOWN"
       /\ \E p \in Modelled : weeklyHours(p[2]) > 0 /\ NotDivisible(p[2]))
        => status = "INFEASIBLE"

\* the integer part of a / n, by its defining inequalities
Quotient(a, n) == CHOOSE q \in 0 .. a : n * q <= a /\ a < n * q + n

(***************************************************************************)
(* C22, amended.  The division is a floor division and nothing more: a     *)
(* returned solution of a pair with weeklyHours > 0 and start variables    *)
(* has exactly floor(blockHours / 2) two-hour blocks, floor(tripleBlock-   *)
(* Hours / 3) three-hour blocks and singles for the rest of weeklyHours.   *)
(* The remainder of the division is ignored; it does not make the model    *)
(* infeasible.                                                             *)
(***************************************************************************)
C22_FloorBlocks ==
    Finished =>
        \A p \in Modelled :
            LET c == p[1]
                s == p[2]
                bh == inp.subjects[s].blockHours
                th == inp.subjects[s].tripleBlockHours
                n1 == Cardinality(OfPair(sol.y1, c, s))
                n2 == Cardinality(OfPair(sol.y2, c, s))
                n3 == Cardinality(OfPair(sol.y3, c, s))
            IN (weeklyHours(s) > 0 /\ bh >= 0 /\ th >= 0 /\ HasStartVars(c, s)) =>
                  /\ n2 = Quotient(bh, 2)
                  /\ n3 = Quotient(th, 3)
                  /\ n1 = weeklyHours(s) - 2 * n2 - 3 * n3

C22_Witness ==
    /\ Finished
    /\ \E p \in Modelled :
          /\ weeklyHours(p[2]) > 0 /\ NotDivisible(p[2]) /\ HasStartVars(p[1], p[2])
          /\ Cardinality(CellsOf(p[1], p[2])) = weeklyHours(p[2])

(***************************************************************************)
(* C23.  A fixed assignment on a modelled pair, at a slot of the class day *)
(* where every eligible teacher is unavailable: solve raises nothing, and  *)
(* once the solver has decided the result is INFEASIBLE with an empty      *)
(* schedule.  No x of the slot has a covering start, so the link forces    *)
(* them all to 0 while the pin asks for their sum to be 1.                 *)
(***************************************************************************)
PinOnUnavailableSlot(fa) ==
    /\ <<fa.classroomId, fa.subjectId>> \in Modelled
    /\ fa.dayIndex \in Days
    /\ fa.hourIndex \in 0 .. (AllowedLen(fa.classroomId, fa.dayIndex) - 1)
    /\ \A t \in eligible_teachers(fa.classroomId, fa.subjectId) :
          <<fa.dayIndex, fa.hourIndex>> \notin inp.teachers[t].availability

C23_PinUnavailableInfeasible ==
    (\E fa \in inp.fixedAssignments : PinOnUnavailableSlot(fa)) =>
        /\ pc # "raised"
        /\ ~Returned
        /\ \A fa \in inp.fixedAssignments :
              (PinOnUnavailableSlot(fa) /\ pc # "build") =>
                  /\ vars_fixed(fa) # {}
                  /\ \A k \in vars_fixed(fa) : Cover(sol, k) = 0
        /\ (pc = "done" /\ status # "UNKNOWN") =>
              /\ status = "INFEASIBLE"
              /\ schedule = EmptySchedule
              /\ placements = 0

C23_Witness ==
    /\ pc = "done" /\ status = "INFEASIBLE" /\ schedule = EmptySchedule
    /\ \E fa \in inp.fixedAssignments :
          /\ PinOnUnavailableSlot(fa)
          /\ Cardinality(vars_fixed(fa)) >= 2
    /\ \E k \in y1 : k[3] \in TeacherIds

(***************************************************************************)
(* C26.  With maxTeacherGapHours = 0 the hours a teacher is occupied on a  *)
(* day form one interval in every returned solution, however long the idle *)
(* stretch between two lessons would be.                                   *)
(***************************************************************************)
OccupiedHours(t, d) == {h \in HoursRange : TeacherAt(t, d, h)}

IsInterval(S) == \A a \in S : \A b \in S : \A h \in a .. b : h \in S

C26_SingleInterval ==
    (Finished /\ inp.prefs.maxTeacherGapHours = PyNum(0)
       /\ \A s \in Subjects : weeklyHours(s) > 0) =>
        \A t \in Teachers : \A d \in Days : IsInterval(OccupiedHours(t, d))

(***************************************************************************)
(* C25.  The linear constraints leave no freedom to the occupancy and gap  *)
(* variables: for every assignment of the x variables the search visits,   *)
(* the only value of o[(t,d,h)] they allow is 1 if some x of the teacher   *)
(* at the slot is true and 0 otherwise, and the only value of the gap      *)
(* variable of h, 1 <= h <= allowedLen - 2, is 1 if o[h-1] = 1, o[h] = 0   *)
(* and o[h+1] = 1 and 0 otherwise.  In a returned solution these are the   *)
(* hours the schedule shows the teacher around an idle hour.               *)
(***************************************************************************)
Built == pc \in {"solve", "extract", "done"}

SomeXTrue(xv, t, d, h) == \E c \in Classrooms : \E s \in Subjects : <<c, s, t, d, h>> \in xv

C25_AuxiliariesDetermined ==
    Built =>
        \A t \in Teachers : \A d \in Days :
            LET xv == XVal(sol)
                len == TeacherDayLen(d)
                forced == [h \in 0 .. (len - 1) |-> B(SomeXTrue(xv, t, d, h))]
            IN /\ OValues(xv, t, d) = {forced}
               /\ gap_candidates(d) = 1 .. (len - 2)
               /\ GapValues(forced, d) =
                     {[h \in 1 .. (len - 2) |->
                         B(forced[h - 1] = 1 /\ forced[h] = 0 /\ forced[h + 1] = 1)]}
               /\ Finished =>
                     \A h \in 1 .. (len - 2) :
                         \A gv \in GapValues(forced, d) :
                             gv[h] = 1 <=> (/\ TeacherAt(t, d, h - 1)
                                            /\ ~TeacherAt(t, d, h)
                                            /\ TeacherAt(t, d, h + 1))

\* a returned solution where a gap variable is 1 and another one is 0
C25_Witness ==
    /\ Finished
    /\ \E t \in Teachers : \E d \in Days :
          /\ TeacherDayLen(d) >= 4
          /\ TeacherAt(t, d, 0) /\ ~TeacherAt(t, d, 1) /\ TeacherAt(t, d, 2)
          /\ \E ov \in OValues(XVal(sol), t, d) : \E gv \in GapValues(ov, d) :
                gv[1] = 1 /\ gv[2] = 0

(***************************************************************************)
(* C27.  Without maxTeacherGapHours the auxiliary variables (o, occ_count, *)
(* heavy, the gap variables, gap_present, no_gap_heavy) remove no          *)
(* schedule: every assignment that satisfies the constraints on x and the  *)
(* starts extends to values of the auxiliaries of every teacher and day    *)
(* that satisfy theirs, whatever the length of the day, 0 and 1 included.  *)
(***************************************************************************)
C27_AuxiliariesConservative ==
    (Built /\ ModelValid /\ ~max_teacher_gap_hours.some /\ Hard(sol, TRUE)) =>
        \A t \in Teachers : \A d \in Days : AuxExtends(XVal(sol), t, d)

\* a returned schedule with a teacher occupied on a day of one hour, next
\* to a day without hours
C27_Witness ==
    /\ Finished
    /\ ~max_teacher_gap_hours.some
    /\ \E t \in Teachers : \E d \in Days : \E e \in Days :
          /\ TeacherDayLen(d) = 1 /\ TeacherAt(t, d, 0)
          /\ TeacherDayLen(e) = 0
          /\ AuxExtends(xval, t, d) /\ AuxExtends(xval, t, e)

(***************************************************************************)
(* C24.  With W_E = edgeWeight (default 1), W_N = nogapWeight (default 3)  *)
(* and W_G = max(0, teacherGapWeight) (default 0), all non-negative        *)
(* integers: the objective is omitted exactly when stopAtFirst is true or  *)
(* the three weights are 0; when it is not omitted, a result with status   *)
(* OPTIMAL has the least value, over the schedules satisfying the hard     *)
(* constraints, of W_E * (first-hour and last-hour occupancies of the      *)
(* teacher days) + W_N * (teacher days with at least 6 occupied hours and  *)
(* no 1,0,1 gap) + W_G * (gap hours).                                      *)
(***************************************************************************)
IsWeight(raw) == raw.k = "num" /\ raw.twice >= 0 /\ raw.twice % 2 = 0

WeightsInContract ==
    /\ inp.prefs.edgeWeight.k = "absent" \/ IsWeight(inp.prefs.edgeWeight)
    /\ inp.prefs.nogapWeight.k = "absent" \/ IsWeight(inp.prefs.nogapWeight)
    /\ \/ inp.prefs.teacherGapWeight.k = "none"
       \/ inp.prefs.teacherGapWeight.k = "num" /\ inp.prefs.teacherGapWeight.twice % 2 = 0

W_E == IF inp.prefs.edgeWeight.k = "absent" THEN 1 ELSE inp.prefs.edgeWeight.twice \div 2
W_N == IF inp.prefs.nogapWeight.k = "absent" THEN 3 ELSE inp.prefs.nogapWeight.twice \div 2
W_G == IF inp.prefs.teacherGapWeight.k = "none" THEN 0
       ELSE IF inp.prefs.teacherGapWeight.twice <= 0 THEN 0
       ELSE inp.prefs.teacherGapWeight.twice \div 2

ObjectiveOmitted == inp.stop_at_first \/ (W_E = 0 /\ W_N = 0 /\ W_G = 0)

\* the slots <<teacher, day, hour>> an assignment of x occupies
Occupancy(xv) == {<<k[3], k[4], k[5]>> : k \in xv}

\* the same read from the returned schedule
ScheduleOccupancy ==
    {<<schedule[g].teacherId, g[2], g[3]>> :
        g \in {q \in DOMAIN schedule : schedule[q].teacherId # ""}}

GapHoursOf(occ, t, d) ==
    {h \in 1 .. (TeacherDayLen(d) - 2) :
        <<t, d, h - 1>> \in occ /\ <<t, d, h>> \notin occ /\ <<t, d, h + 1>> \in occ}

Cost(occ) ==
    W_E * ( Cardinality({td \in TeacherDays :
                            TeacherDayLen(td[2]) >= 1 /\ <<td[1], td[2], 0>> \in occ})
          + Cardinality({td \in TeacherDays :
                            TeacherDayLen(td[2]) >= 1
                            /\ <<td[1], td[2], TeacherDayLen(td[2]) - 1>> \in occ}) )
    + W_N * Cardinality({td \in TeacherDays :
                            /\ Cardinality({q \in occ : q[1] = td[1] /\ q[2] = td[2]}) >= 6
                            /\ GapHoursOf(occ, td[1], td[2]) = {}})
    + W_G * Cardinality({q \in Teachers \X Days \X (0 .. HeavyDayLen) :
                            q[3] \in GapHoursOf(occ, q[1], q[2])})

SessionsOf(k) ==
    {j \in 1 .. Len(auth.tokens) :
        auth.tokens[j].purpose = "session" /\ auth.tokens[j].from = k}

C28_AtMostOneSession ==
    \A k \in 1 .. Len(auth.tokens) : Cardinality(SessionsOf(k)) <= 1

(***************************************************************************)
(* C29.  No sequence of request-code and verify requests gives a session   *)
(* of admin level (admin, owner, manager, super_admin) in S to somebody    *)
(* who was no member of S: the account of m, who had none, never gets a    *)
(* session response whose membership of S is of admin level.               *)
(***************************************************************************)
C29_NoAdminSession ==
    \A i \in Handlers :
        (auth.h[i].resp.kind = "session" /\ auth.h[i].resp.user = "m") =>
            auth.h[i].resp.role \notin AdminLevel

(***************************************************************************)
(* C30.  With the JSON file backend no update is lost: once the operations *)
(* have returned, the file holds every token an add_login_token returned,  *)
(* under the id it returned, every token a mark_login_token_consumed       *)
(* marked is consumed in the file, the token the file started with is      *)
(* still there, and no two tokens were given the same id.                  *)
(***************************************************************************)
Quiescent == \A q \in Procs : store.p[q].pc \in {"idle", "done"}

InFile(t) == \E k \in DOMAIN store.file : store.file[k].token = t

C30_NoLostUpdate ==
    Quiescent =>
        /\ InFile(0)
        /\ \A a \in store.added :
              \E k \in DOMAIN store.file :
                  store.file[k].token = a.tok /\ store.file[k].id = a.id
        /\ \A t \in store.marked :
              \A k \in DOMAIN store.file :
                  store.file[k].token = t => store.file[k].consumed
        /\ \A a \in store.added : \A b \in store.added : a.id = b.id => a.tok = b.tok
        /\ \A a \in store.added : a.id # 1

====
